---- MODULE Spec2Model ----
(***************************************************************************)
(* Version distribution and self-update of idle-hue.                       *)
(*                                                                         *)
(*   version-api          the Coordinator: HTTP handlers over the registry *)
(*                        (D1 table app_versions) and the artifact store   *)
(*                        (R2 bucket)                                      *)
(*   version-api-client   VersionServerClient, the typed request library   *)
(*   idle-hue             the Auto-Updater and the Update Status           *)
(*                                                                         *)
(* Strings that travel through a URL (version strings) are sequences of    *)
(* one-character strings, so that formatting them into a path and parsing  *)
(* the path back is computed and not assumed.  Byte strings are sequences  *)
(* of numbers.                                                             *)
(***************************************************************************)
EXTENDS Integers, Sequences, FiniteSets, TLC

VARIABLES
    rows,       \* the registry: the rows of table app_versions
    blobs,      \* the artifact store: key -> bytes of a completed object
    sessions,   \* the artifact store: uploadId -> open multipart upload
    nextId,     \* the store's next upload id
    clock,      \* the server's clock (chrono::Utc::now)
    del,        \* requester -> the delete_version handler it has in flight
    lastReq,    \* the request last answered: its endpoint and header
    lastResp,   \* the response to it: its status and the kind of its body
    reqSeq,     \* flips at every response
    cl,         \* client -> the operation a VersionServerClient is running
    hist,       \* client -> the operations it has completed, latest last
    status,     \* the Update Status (State::update_status, behind the mutex)
    flows,      \* the check flows started, in order: position and outcome
    triggers,   \* the button clicks and the timer ticks so far
    downloads,  \* download requests made by the updater
    installs,   \* install attempts made by the updater
    netReqs,    \* HTTP requests sent by the updater's client
    exited,     \* the process has exited (std::process::exit)
    os,         \* the platform this build runs on: env::consts::OS and arch
    disk        \* the files an install works on, and how far the install is

serverVars == <<rows, blobs, sessions, nextId, clock, del>>
wireVars == <<lastReq, lastResp, reqSeq>>
clientVars == <<cl, hist>>
updaterVars == <<status, flows, triggers, downloads, installs, netReqs,
                 exited, os, disk>>
vars == <<rows, blobs, sessions, nextId, clock, del, lastReq, lastResp, reqSeq,
          cl, hist, status, flows, triggers, downloads, installs, netReqs,
          exited, os, disk>>

----------------------------------------------------------------------------
(* Bounds of the model *)

\* longest file, in units of bytes of the model
MaxLen == 3
\* multipart uploads the store creates in one run
MaxUploads == 1
\* upload/finish calls the server's clock is followed over
MaxClock == 2
\* operations one client runs
MaxOps == 2
\* button clicks and timer ticks the updater is followed over
MaxTriggers == 2
\* uploads that built the registry the lookups are run against
MaxReleases == 3
\* entries of the archive an install extracts
MaxEntries == 2

\* version-api-client: const CHUNK_SIZE (50 MiB); one model byte stands for
\* 25 MiB
CHUNK_SIZE == 2

----------------------------------------------------------------------------
(* version-api-models *)

SUPPORTED_PLATFORMS == {"macos-arm", "macos-intel", "windows-x86_64-gnu"}

\* a platform name outside the supported set: what get_platform_string
\* computes on any other OS
LinuxPlatform == "linux-x86_64-gnu"

PlatformNames == SUPPORTED_PLATFORMS \cup {LinuxPlatform}

----------------------------------------------------------------------------
(* Sequences *)

RECURSIVE Concat(_)
\* the concatenation of a sequence of sequences
Concat(ss) == IF ss = <<>> THEN <<>> ELSE Head(ss) \o Concat(Tail(ss))

RECURSIVE IndexOf(_, _, _)
\* the first index >= i of s holding a member of set, or 0
IndexOf(s, set, i) ==
    IF i > Len(s) THEN 0
    ELSE IF s[i] \in set THEN i
    ELSE IndexOf(s, set, i + 1)

RECURSIVE Split(_, _)
\* s split at every occurrence of sep (str::split)
Split(s, sep) ==
    LET i == IndexOf(s, {sep}, 1)
    IN IF i = 0 THEN <<s>>
       ELSE <<SubSeq(s, 1, i - 1)>> \o Split(SubSeq(s, i + 1, Len(s)), sep)

RECURSIVE SetToSeq(_)
\* some enumeration of a finite set
SetToSeq(S) ==
    IF S = {} THEN <<>>
    ELSE LET x == CHOOSE y \in S : TRUE IN <<x>> \o SetToSeq(S \ {x})

Range(s) == {s[i] : i \in DOMAIN s}

----------------------------------------------------------------------------
(* The artifact store (R2) and the registry (D1) *)

\* version-api: format!("{app_name}/{version}/{app_name}-{platform}.zip")
FileKey(app, version, platform) ==
    <<app, "/">> \o version \o <<"/", app, "-", platform, ".zip">>

\* the etag the store gives a part: a digest of its bytes
Etag(data) == <<"etag", data>>

\* a hash that does not depend on the bytes
Sha256OfNothing(data) == <<"sha256", <<>>>>

\* sha2::Sha256 over the bytes, as lowercase hex: a digest, one per content
Sha256(data) == <<"sha256", data>>

ServerState ==
    [rows |-> rows, blobs |-> blobs, sessions |-> sessions, nextId |-> nextId,
     clock |-> clock]

HasBlob(st, key) == key \in DOMAIN st.blobs

\* bucket.create_multipart_upload(key): a new open session
StoreCreate(st, key) ==
    [st EXCEPT !.sessions = [id \in DOMAIN st.sessions \cup {st.nextId} |->
                                IF id = st.nextId
                                THEN [key |-> key, parts |-> <<>>]
                                ELSE st.sessions[id]],
               !.nextId = st.nextId + 1]

\* resume_multipart_upload(key, upload_id) names a session of the store
SessionOpen(st, key, uploadId) ==
    uploadId \in DOMAIN st.sessions /\ st.sessions[uploadId].key = key

\* the parts of a session: a function from part number to bytes, kept as a
\* sequence of [n, data] in ascending n
RECURSIVE PutPart(_, _, _)
PutPart(parts, n, data) ==
    IF parts = <<>> THEN <<[n |-> n, data |-> data]>>
    ELSE IF Head(parts).n = n THEN <<[n |-> n, data |-> data]>> \o Tail(parts)
    ELSE IF Head(parts).n > n THEN <<[n |-> n, data |-> data]>> \o parts
    ELSE <<Head(parts)>> \o PutPart(Tail(parts), n, data)

\* an upload_part whose bytes are readable at the target key at once
StoreUploadPartPublishes(st, uploadId, n, data) ==
    [st EXCEPT !.sessions[uploadId].parts = PutPart(@, n, data),
               !.blobs = [k \in DOMAIN st.blobs \cup {st.sessions[uploadId].key}
                             |-> IF k = st.sessions[uploadId].key THEN data
                                 ELSE st.blobs[k]]]

\* multipart_upload.upload_part(part_number, bytes)
StoreUploadPart(st, uploadId, n, data) ==
    [st EXCEPT !.sessions[uploadId].parts = PutPart(@, n, data)]

\* what complete() accepts: the listed parts are the uploaded ones, in
\* ascending order, each with the etag the store issued
PartsMatch(session, parts) ==
    /\ Len(parts) = Len(session.parts)
    /\ \A i \in DOMAIN parts :
          /\ parts[i].partNumber = session.parts[i].n
          /\ parts[i].etag = Etag(session.parts[i].data)

\* multipart_upload.complete(parts): the object is the parts in order; the
\* session ends
StoreComplete(st, uploadId) ==
    LET s == st.sessions[uploadId]
        data == Concat([i \in DOMAIN s.parts |-> s.parts[i].data])
    IN [st EXCEPT !.blobs = [k \in DOMAIN st.blobs \cup {s.key} |->
                                IF k = s.key THEN data ELSE st.blobs[k]],
                  !.sessions = [id \in DOMAIN st.sessions \ {uploadId} |->
                                   st.sessions[id]]]

\* multipart_upload.abort(): the session ends, no object is produced
StoreAbort(st, uploadId) ==
    [st EXCEPT !.sessions = [id \in DOMAIN st.sessions \ {uploadId} |->
                                st.sessions[id]]]

\* bucket.delete(key)
StoreDelete(bl, key) == [k \in DOMAIN bl \ {key} |-> bl[k]]

\* a plain INSERT into a table without the key
InsertRow(rs, row) == rs \cup {row}

\* INSERT OR REPLACE INTO app_versions (app_name, version, platform,
\* timestamp, sha256): the table's key is (app_name, version, platform)
Upsert(rs, row) ==
    {r \in rs : ~(/\ r.app_name = row.app_name
                  /\ r.version = row.version
                  /\ r.platform = row.platform)} \cup {row}

\* SELECT ... WHERE app_name = ?1 AND version = ?2 AND platform = ?3
RowsOf(rs, app, version, platform) ==
    {r \in rs : r.app_name = app /\ r.version = version /\ r.platform = platform}

\* SELECT platform FROM app_versions WHERE app_name = ?1 AND version = ?2
PlatformsOf(rs, app, version) ==
    {r.platform : r \in {x \in rs : x.app_name = app /\ x.version = version}}

\* a DELETE that names one platform
DeleteRowsOfOnePlatform(rs, app, version) ==
    {r \in rs : ~(/\ r.app_name = app
                  /\ r.version = version
                  /\ r.platform = "macos-arm")}

\* DELETE FROM app_versions WHERE app_name = ?1 AND version = ?2
DeleteRows(rs, app, version) ==
    {r \in rs : ~(r.app_name = app /\ r.version = version)}

----------------------------------------------------------------------------
(* version-api: the Coordinator's handlers.  A handler is a function of the  *)
(* request and the server state st to a response and the next server state.  *)
(* An optional value is <<>> (absent) or <<v>>.                              *)

\* env.secret("API_KEY")
API_KEY == <<"k1">>

ErrorResp(code, msg) == [status |-> code, kind |-> "error", error |-> msg]

Reply(resp, st) == [resp |-> resp, st |-> st]

\* auth_header.strip_prefix("Bearer "): a header is a sequence of tokens, the
\* scheme word and each blank being one token
StripBearer(header) ==
    IF Len(header) >= 2 /\ header[1] = "Bearer" /\ header[2] = " "
    THEN <<SubSeq(header, 3, Len(header))>>
    ELSE <<>>

\* authenticate_request: <<>> when the request is authenticated, else the
\* response to send
AuthKeyTooLenient(auth) ==
    IF auth = <<>>
    THEN <<ErrorResp(401, "Authorization header required")>>
    ELSE IF StripBearer(auth[1]) = <<>>
    THEN <<ErrorResp(401, "Invalid authorization header format")>>
    ELSE <<>>

authenticate_request(auth) ==
    IF auth = <<>>
    THEN <<ErrorResp(401, "Authorization header required")>>
    ELSE IF StripBearer(auth[1]) = <<>>
    THEN <<ErrorResp(401, "Invalid authorization header format")>>
    ELSE IF StripBearer(auth[1])[1] # API_KEY
    THEN <<ErrorResp(401, "Invalid API key")>>
    ELSE <<>>

\* body.parts filtered to the entries that carry a partNumber and an etag
UploadedParts(parts) ==
    SelectSeq(parts, LAMBDA p : {"partNumber", "etag"} \subseteq DOMAIN p)

\* POST /:app/upload.  q: the query pairs [action, version, platform,
\* uploadId], each optional; body: the JSON body {parts}, <<>> when it does
\* not parse; storeOk: whether the store accepts a completion with no part
handle_multipart_post(st, auth, app, q, body, storeOk) ==
    IF authenticate_request(auth) # <<>>
    THEN Reply(authenticate_request(auth)[1], st)
    ELSE IF q.action = <<>>
    THEN Reply(ErrorResp(400, "Action parameter is required"), st)
    ELSE IF q.action[1] = "mpu-create"
    THEN IF q.version = <<>>
         THEN Reply(ErrorResp(400, "version parameter is required"), st)
         ELSE IF q.platform = <<>>
         THEN Reply(ErrorResp(400, "platform parameter is required"), st)
         ELSE LET key == FileKey(app, q.version[1], q.platform[1])
              IN Reply([status |-> 200, kind |-> "create", key |-> key,
                        uploadId |-> st.nextId],
                       StoreCreate(st, key))
    ELSE IF q.action[1] = "mpu-complete"
    THEN IF q.version = <<>>
         THEN Reply(ErrorResp(400, "version parameter is required"), st)
         ELSE IF q.platform = <<>>
         THEN Reply(ErrorResp(400, "platform parameter is required"), st)
         ELSE IF q.uploadId = <<>>
         THEN Reply(ErrorResp(400, "uploadId parameter is required"), st)
         ELSE IF body = <<>>
         THEN Reply(ErrorResp(500, "Failed to parse request body"), st)
         ELSE LET key == FileKey(app, q.version[1], q.platform[1])
                  id == q.uploadId[1]
                  parts == UploadedParts(body[1].parts)
              IN IF /\ SessionOpen(st, key, id)
                    /\ PartsMatch(st.sessions[id], parts)
                    /\ (parts # <<>> \/ storeOk)
                 THEN Reply([status |-> 200, kind |-> "complete",
                             success |-> TRUE,
                             etag |-> Etag(StoreComplete(st, id).blobs[key])],
                            StoreComplete(st, id))
                 ELSE Reply(ErrorResp(500, "Failed to complete multipart upload"),
                            st)
    ELSE Reply(ErrorResp(400, "Unknown action for POST"), st)

\* PUT /:app/upload.  q: [action, version, platform, uploadId, partNumber]
handle_multipart_put(st, auth, app, q, body) ==
    IF authenticate_request(auth) # <<>>
    THEN Reply(authenticate_request(auth)[1], st)
    ELSE IF q.action = <<>>
    THEN Reply(ErrorResp(400, "Action parameter is required"), st)
    ELSE IF q.action[1] = "mpu-uploadpart"
    THEN IF q.version = <<>>
         THEN Reply(ErrorResp(400, "version parameter is required"), st)
         ELSE IF q.platform = <<>>
         THEN Reply(ErrorResp(400, "platform parameter is required"), st)
         ELSE IF q.uploadId = <<>>
         THEN Reply(ErrorResp(400, "uploadId parameter is required"), st)
         ELSE IF q.partNumber = <<>>
         THEN Reply(ErrorResp(400, "partNumber parameter is required"), st)
         ELSE LET key == FileKey(app, q.version[1], q.platform[1])
                  id == q.uploadId[1]
              IN IF SessionOpen(st, key, id)
                 THEN Reply([status |-> 200, kind |-> "part",
                             partNumber |-> q.partNumber[1],
                             etag |-> Etag(body)],
                            StoreUploadPart(st, id, q.partNumber[1], body))
                 ELSE Reply(ErrorResp(500, "Failed to upload part"), st)
    ELSE Reply(ErrorResp(400, "Unknown action for PUT"), st)

\* DELETE /:app/upload.  q: [action, version, platform, uploadId]
handle_multipart_delete(st, auth, app, q) ==
    IF authenticate_request(auth) # <<>>
    THEN Reply(authenticate_request(auth)[1], st)
    ELSE IF q.action = <<>>
    THEN Reply(ErrorResp(400, "Action parameter is required"), st)
    ELSE IF q.action[1] = "mpu-abort"
    THEN IF q.version = <<>>
         THEN Reply(ErrorResp(400, "version parameter is required"), st)
         ELSE IF q.platform = <<>>
         THEN Reply(ErrorResp(400, "platform parameter is required"), st)
         ELSE IF q.uploadId = <<>>
         THEN Reply(ErrorResp(400, "uploadId parameter is required"), st)
         ELSE LET key == FileKey(app, q.version[1], q.platform[1])
                  id == q.uploadId[1]
              IN IF SessionOpen(st, key, id)
                 THEN Reply([status |-> 204, kind |-> "empty"],
                            StoreAbort(st, id))
                 ELSE Reply(ErrorResp(500, "Failed to abort multipart upload"),
                            st)
    ELSE Reply(ErrorResp(400, "Unknown action for DELETE"), st)

\* upload/finish as INSERT OR IGNORE: a row that exists for the key stays
FinishInsertOrIgnore(st, auth, app, body) ==
    IF authenticate_request(auth) # <<>>
    THEN Reply(authenticate_request(auth)[1], st)
    ELSE IF body = <<>>
    THEN Reply(ErrorResp(500, "Failed to parse request body"), st)
    ELSE Reply([status |-> 200, kind |-> "finish", success |-> TRUE,
                app_name |-> app, version |-> body[1].version,
                platform |-> body[1].platform],
               [st EXCEPT !.rows =
                             IF RowsOf(@, app, body[1].version,
                                       body[1].platform) # {}
                             THEN @
                             ELSE @ \cup {[app_name |-> app,
                                           version |-> body[1].version,
                                           platform |-> body[1].platform,
                                           timestamp |-> st.clock,
                                           sha256 |-> body[1].sha256]},
                          !.clock = st.clock + 1])

\* POST /:app/upload/finish.  body: the CompleteVersionRequest, <<>> when the
\* body does not parse
complete_version_upload(st, auth, app, body) ==
    IF authenticate_request(auth) # <<>>
    THEN Reply(authenticate_request(auth)[1], st)
    ELSE IF body = <<>>
    THEN Reply(ErrorResp(500, "Failed to parse request body"), st)
    ELSE Reply([status |-> 200, kind |-> "finish", success |-> TRUE,
                app_name |-> app, version |-> body[1].version,
                platform |-> body[1].platform],
               [st EXCEPT !.rows = Upsert(@, [app_name |-> app,
                                              version |-> body[1].version,
                                              platform |-> body[1].platform,
                                              timestamp |-> st.clock,
                                              sha256 |-> body[1].sha256]),
                          !.clock = st.clock + 1])

RECURSIVE ByTimestampAsc(_)
\* a sort by timestamp that puts the least first
ByTimestampAsc(S) ==
    IF S = {} THEN <<>>
    ELSE LET x == CHOOSE y \in S : \A z \in S : z.timestamp >= y.timestamp
         IN <<x>> \o ByTimestampAsc(S \ {x})

RECURSIVE ByTimestampDesc(_)
\* a set of rows or entries as a sequence, the greatest timestamp first
ByTimestampDesc(S) ==
    IF S = {} THEN <<>>
    ELSE LET x == CHOOSE y \in S : \A z \in S : z.timestamp <= y.timestamp
         IN <<x>> \o ByTimestampDesc(S \ {x})

\* the index of the entry of acc for version, or 0
EntryIndex(acc, version) ==
    IF \E i \in DOMAIN acc : acc[i].version = version
    THEN CHOOSE i \in DOMAIN acc : acc[i].version = version
    ELSE 0

RECURSIVE Aggregate(_, _, _)
\* list_versions' loop over the rows: one VersionResponse per version
Aggregate(app, rowSeq, acc) ==
    IF rowSeq = <<>> THEN acc
    ELSE LET r == Head(rowSeq)
             i == EntryIndex(acc, r.version)
             acc2 == IF i = 0
                     THEN Append(acc, [app_name |-> app, version |-> r.version,
                                       timestamp |-> r.timestamp,
                                       platforms |-> <<>>, sha256s |-> <<>>])
                     ELSE acc
             j == IF i = 0 THEN Len(acc2) ELSE i
             e == acc2[j]
             e2 == [e EXCEPT
                      !.timestamp = IF r.timestamp > @ THEN r.timestamp ELSE @,
                      !.platforms = Append(@, r.platform),
                      !.sha256s = [p \in DOMAIN @ \cup {r.platform} |->
                                      IF p = r.platform THEN r.sha256 ELSE @[p]]]
         IN Aggregate(app, Tail(rowSeq), [acc2 EXCEPT ![j] = e2])

\* list_versions without WHERE app_name = ?1
ListEveryApp(st, app) ==
    LET entries == Aggregate(app, ByTimestampDesc(st.rows), <<>>)
    IN Reply([status |-> 200, kind |-> "versions", app_name |-> app,
              versions |-> ByTimestampDesc(Range(entries))],
             st)

\* GET /:app/versions: the rows of the app by created_at descending, grouped
\* by version, the groups sorted by timestamp descending
list_versions(st, app) ==
    LET appRows == {r \in st.rows : r.app_name = app}
        entries == Aggregate(app, ByTimestampDesc(appRows), <<>>)
    IN Reply([status |-> 200, kind |-> "versions", app_name |-> app,
              versions |-> ByTimestampDesc(Range(entries))],
             st)

\* GET /:app/download/:platform/:version
download_version(st, app, platform, version) ==
    IF platform \notin SUPPORTED_PLATFORMS
    THEN Reply(ErrorResp(400, "Unsupported platform"), st)
    ELSE IF RowsOf(st.rows, app, version, platform) = {}
    THEN Reply(ErrorResp(404, "Version not found for platform"), st)
    ELSE IF ~HasBlob(st, FileKey(app, version, platform))
    THEN Reply(ErrorResp(404, "File not found"), st)
    ELSE Reply([status |-> 200, kind |-> "bytes",
                bytes |-> st.blobs[FileKey(app, version, platform)]],
               st)

----------------------------------------------------------------------------
(* delete_version runs in three stages, each ending at an await: the lookup  *)
(* of the version's platforms, one bucket.delete per platform, and the       *)
(* DELETE of the rows.  Other requests are served between the stages.        *)

Clients == {"c1", "c2"}

\* who sends requests: the clients, and "raw", any other sender of HTTP
\* requests to the Coordinator
Requesters == Clients \cup {"raw"}

NoDelete == [pc |-> "idle", auth |-> <<>>, app |-> "", version |-> <<>>,
             platforms |-> {}, resp |-> [status |-> 0, kind |-> "none"]]

Brief(resp) == [status |-> resp.status, kind |-> resp.kind]

\* DELETE /:app/delete/:version up to the platform lookup
delete_version_start(rs, auth, app, version) ==
    IF authenticate_request(auth) # <<>>
    THEN [NoDelete EXCEPT !.pc = "done",
                          !.resp = Brief(authenticate_request(auth)[1])]
    ELSE IF PlatformsOf(rs, app, version) = {}
    THEN [NoDelete EXCEPT !.pc = "done",
                          !.resp = Brief(ErrorResp(404, "Version not found"))]
    ELSE [NoDelete EXCEPT !.pc = "blobs", !.auth = auth, !.app = app,
                          !.version = version,
                          !.platforms = PlatformsOf(rs, app, version)]

\* the handler starts: authentication and SELECT platform
DeleteStart(r, auth, app, version) ==
    /\ del[r].pc = "idle"
    /\ del' = [del EXCEPT ![r] = delete_version_start(rows, auth, app, version)]
    /\ UNCHANGED <<rows, blobs, sessions, nextId, clock>>

\* for platform in &platforms: bucket.delete(&file_key)
DeleteBlob(r) ==
    /\ del[r].pc = "blobs"
    /\ del[r].platforms # {}
    /\ \E p \in del[r].platforms :
          /\ blobs' = StoreDelete(blobs, FileKey(del[r].app, del[r].version, p))
          /\ del' = [del EXCEPT ![r].platforms = @ \ {p}]
    /\ UNCHANGED <<rows, sessions, nextId, clock>>

\* DELETE FROM app_versions, then the DeleteResponse
DeleteRowsStep(r) ==
    /\ del[r].pc = "blobs"
    /\ del[r].platforms = {}
    /\ rows' = DeleteRows(rows, del[r].app, del[r].version)
    /\ del' = [del EXCEPT ![r].pc = "done",
                          ![r].resp = [status |-> 200, kind |-> "delete"]]
    /\ UNCHANGED <<blobs, sessions, nextId, clock>>

\* try_or_500!(bucket.delete(&file_key).await, ..): the store refuses, the
\* handler returns 500 at once
DeleteBlobFails(r) ==
    /\ del[r].pc = "blobs"
    /\ del[r].platforms # {}
    /\ del' = [del EXCEPT ![r].pc = "done",
                          ![r].resp = Brief(ErrorResp(500, "Failed to delete file"))]
    /\ UNCHANGED <<rows, blobs, sessions, nextId, clock>>

\* try_or_500!(stmt.run().await, ..): the DELETE statement fails
DeleteRowsFails(r) ==
    /\ del[r].pc = "blobs"
    /\ del[r].platforms = {}
    /\ del' = [del EXCEPT ![r].pc = "done",
                          ![r].resp = Brief(ErrorResp(500,
                                          "Failed to execute delete query"))]
    /\ UNCHANGED <<rows, blobs, sessions, nextId, clock>>

----------------------------------------------------------------------------
(* Requests of any sender: every endpoint of the router, with every header   *)
(* and parameter of a small set.                                             *)

Apps == {"demo"}

\* version strings that a URL path carries unchanged
SafeVersions == {<<"1">>, <<"2">>}

WrongKey == <<"k2">>

\* Authorization headers: none, the configured key, another key, the key
\* without the Bearer scheme
AuthHeaders ==
    {<<>>, <<(<<"Bearer", " ">> \o API_KEY)>>, <<(<<"Bearer", " ">> \o WrongKey)>>,
     <<API_KEY>>}

GoodAuth == <<(<<"Bearer", " ">> \o API_KEY)>>

RawVersions == {<<"1">>}
RawChunks == {<<7>>}
RawPartNumbers == {1, 2}

\* the two ways the requests are enumerated: authenticated requests over two
\* platform names, their effect on the registry and the store followed; and
\* requests with every header, the response of each recorded
Plain == [headers |-> {GoodAuth}, platforms |-> {"macos-arm", LinuxPlatform},
          wire |-> FALSE]
Wire == [headers |-> AuthHeaders, platforms |-> {"macos-arm"}, wire |-> TRUE]

Q(action, version, platform, uploadId, partNumber) ==
    [action |-> action, version |-> version, platform |-> platform,
     uploadId |-> uploadId, partNumber |-> partNumber]

\* the part lists a sender may pass to mpu-complete for a session: what it
\* was answered, in order; the same reversed; all but the last; none
PartListsOf(id) ==
    IF id \notin DOMAIN sessions THEN {<<>>}
    ELSE LET ps == sessions[id].parts
             good == [i \in DOMAIN ps |->
                         [partNumber |-> ps[i].n, etag |-> Etag(ps[i].data)]]
         IN {good, [i \in DOMAIN good |-> good[Len(good) + 1 - i]],
             SubSeq(good, 1, Len(good) - 1), <<>>}

\* the request and the response as seen on the wire
Recorded(cfg, endpoint, auth, resp) ==
    IF cfg.wire
    THEN /\ lastReq' = [endpoint |-> endpoint, auth |-> auth]
         /\ lastResp' = Brief(resp)
         /\ reqSeq' = 1 - reqSeq
    ELSE UNCHANGED wireVars

\* the server state after a handler answered
Served(cfg, endpoint, auth, out) ==
    /\ rows' = out.st.rows
    /\ blobs' = out.st.blobs
    /\ sessions' = out.st.sessions
    /\ nextId' = out.st.nextId
    /\ clock' = out.st.clock
    /\ Recorded(cfg, endpoint, auth, out.resp)

RawMpuCreate(cfg) ==
    /\ nextId <= MaxUploads
    /\ \E auth \in cfg.headers, app \in Apps, v \in RawVersions,
          p \in cfg.platforms :
          Served(cfg, "mpu-create", auth,
                 handle_multipart_post(ServerState, auth, app,
                     Q(<<"mpu-create">>, <<v>>, <<p>>, <<>>, <<>>), <<>>, TRUE))
    /\ UNCHANGED <<del, clientVars, updaterVars>>

RawMpuUploadPart(cfg) ==
    /\ \E auth \in cfg.headers, app \in Apps, v \in RawVersions,
          p \in cfg.platforms, id \in 1..MaxUploads, n \in RawPartNumbers,
          body \in RawChunks :
          Served(cfg, "mpu-uploadpart", auth,
                 handle_multipart_put(ServerState, auth, app,
                     Q(<<"mpu-uploadpart">>, <<v>>, <<p>>, <<id>>, <<n>>), body))
    /\ UNCHANGED <<del, clientVars, updaterVars>>

RawMpuComplete(cfg) ==
    /\ \E auth \in cfg.headers, app \in Apps, v \in RawVersions,
          p \in cfg.platforms, id \in 1..MaxUploads, storeOk \in BOOLEAN :
          \E parts \in PartListsOf(id) :
             Served(cfg, "mpu-complete", auth,
                    handle_multipart_post(ServerState, auth, app,
                        Q(<<"mpu-complete">>, <<v>>, <<p>>, <<id>>, <<>>),
                        <<[parts |-> parts]>>, storeOk))
    /\ UNCHANGED <<del, clientVars, updaterVars>>

RawMpuAbort(cfg) ==
    /\ \E auth \in cfg.headers, app \in Apps, v \in RawVersions,
          p \in cfg.platforms, id \in 1..MaxUploads :
          Served(cfg, "mpu-abort", auth,
                 handle_multipart_delete(ServerState, auth, app,
                     Q(<<"mpu-abort">>, <<v>>, <<p>>, <<id>>, <<>>)))
    /\ UNCHANGED <<del, clientVars, updaterVars>>

RawFinish(cfg) ==
    /\ clock <= MaxClock
    /\ \E auth \in cfg.headers, app \in Apps, v \in RawVersions,
          p \in cfg.platforms, data \in RawChunks :
          Served(cfg, "upload/finish", auth,
                 complete_version_upload(ServerState, auth, app,
                     <<[version |-> v, platform |-> p, sha256 |-> Sha256(data)]>>))
    /\ UNCHANGED <<del, clientVars, updaterVars>>

RawListVersions(cfg) ==
    /\ \E auth \in cfg.headers, app \in Apps :
          Served(cfg, "versions", auth, list_versions(ServerState, app))
    /\ UNCHANGED <<del, clientVars, updaterVars>>

RawDownload(cfg) ==
    /\ \E auth \in cfg.headers, app \in Apps, v \in RawVersions,
          p \in cfg.platforms :
          Served(cfg, "download", auth, download_version(ServerState, app, p, v))
    /\ UNCHANGED <<del, clientVars, updaterVars>>

\* a delete request arrives; it is answered at once when it is refused
RawDeleteStart(cfg) ==
    /\ \E auth \in cfg.headers, app \in Apps, v \in RawVersions :
          /\ DeleteStart("raw", auth, app, v)
          /\ IF del'["raw"].pc = "done"
             THEN Recorded(cfg, "delete", auth, del'["raw"].resp)
             ELSE UNCHANGED wireVars
    /\ UNCHANGED <<clientVars, updaterVars>>

RawDeleteBlob ==
    /\ DeleteBlob("raw")
    /\ UNCHANGED <<wireVars, clientVars, updaterVars>>

RawDeleteRows(cfg) ==
    /\ DeleteRowsStep("raw")
    /\ Recorded(cfg, "delete", del["raw"].auth, del'["raw"].resp)
    /\ UNCHANGED <<clientVars, updaterVars>>

RawDeleteBlobFails(cfg) ==
    /\ DeleteBlobFails("raw")
    /\ Recorded(cfg, "delete", del["raw"].auth, del'["raw"].resp)
    /\ UNCHANGED <<clientVars, updaterVars>>

RawDeleteRowsFails(cfg) ==
    /\ DeleteRowsFails("raw")
    /\ Recorded(cfg, "delete", del["raw"].auth, del'["raw"].resp)
    /\ UNCHANGED <<clientVars, updaterVars>>

\* the response has been sent: the handler is over
RawDeleteEnd ==
    /\ del["raw"].pc = "done"
    /\ del' = [del EXCEPT !["raw"] = NoDelete]
    /\ UNCHANGED <<rows, blobs, sessions, nextId, clock, wireVars, clientVars,
                   updaterVars>>

----------------------------------------------------------------------------
(* The router of the Coordinator and the URLs of the client.  A URL is a     *)
(* sequence of tokens: an app or platform name is one token, a version       *)
(* string contributes its characters.                                        *)

\* the path of a URL given as a string: what precedes the first '?' or '#'
\* (reqwest parses the string with Url::parse)
UrlPath(url) ==
    IF IndexOf(url, {"?", "#"}, 1) = 0 THEN url
    ELSE SubSeq(url, 1, IndexOf(url, {"?", "#"}, 1) - 1)

\* the segments of a path after its leading '/'
PathSegments(path) == Tail(Split(path, "/"))

NotFoundResp == [status |-> 404, kind |-> "text"]

\* Router: GET /:app/download/:platform/:version.  A parameter matches one
\* non-empty segment; a path no route matches is answered 404
RouteDownload(st, url) ==
    LET seg == PathSegments(UrlPath(url))
    IN IF /\ Len(seg) = 4
          /\ seg[2] = <<"download">>
          /\ \A i \in 1..4 : seg[i] # <<>>
       THEN download_version(st, seg[1][1], seg[3][1], seg[4])
       ELSE Reply(NotFoundResp, st)

\* Router: DELETE /:app/delete/:version: <<app, version>>, or <<>> when the
\* path matches no route
RouteDelete(url) ==
    LET seg == PathSegments(UrlPath(url))
    IN IF /\ Len(seg) = 3
          /\ seg[2] = <<"delete">>
          /\ \A i \in 1..3 : seg[i] # <<>>
       THEN <<seg[1][1], seg[3]>>
       ELSE <<>>

\* client: format!("{}/{}/download/{}/{}", base_url, app_name, platform,
\* version), after the base URL
DownloadUrl(app, platform, version) ==
    <<"/", app, "/", "download", "/", platform, "/">> \o version

\* client: format!("{}/{}/delete/{}", base_url, app_name, version)
DeleteUrl(app, version) == <<"/", app, "/", "delete", "/">> \o version

----------------------------------------------------------------------------
(* version-api-client: VersionServerClient.  A result is Ok(value) or        *)
(* Err(error).                                                               *)

Ok(v) == [tag |-> "Ok", value |-> v]
Err(e) == [tag |-> "Err", err |-> e]

\* add_auth_header: "Bearer {api_key}" when the client has a key
AuthHeaderOf(api_key) ==
    IF api_key = <<>> THEN <<>> ELSE <<(<<"Bearer", " ">> \o api_key[1])>>

IsSuccess(resp) == resp.status >= 200 /\ resp.status < 300

\* handle_response::<T>: the body as a T on a 2xx status, else the error of
\* the status; kind names the body a T parses from
handle_response(resp, kind) ==
    IF IsSuccess(resp)
    THEN IF resp.kind = kind THEN Ok(resp) ELSE Err("Http")
    ELSE IF resp.status = 401 THEN Err("Authentication")
    ELSE IF resp.status = 404 THEN Err("VersionNotFound")
    ELSE Err("Api")

\* Result::unwrap_err: the error of an Err, a panic on an Ok
Panic == [tag |-> "Panic"]
unwrap_err(r) == IF r.tag = "Err" THEN r ELSE Panic

\* bodies that are not JSON
NotJson == {"text", "bytes"}

\* list_versions on a response: on 200 the "versions" of a JSON body, none
\* when the body has no such key; none on a 404; else
\* handle_response::<Vec<VersionResponse>>(..).unwrap_err().  The kind of a
\* body is what it parses as: "list" is a JSON array of versions
ListResult(resp) ==
    IF resp.status = 200
    THEN IF resp.kind = "versions" THEN Ok(resp.versions)
         ELSE IF resp.kind \in NotJson THEN Err("Http")
         ELSE Ok(<<>>)
    ELSE IF resp.status = 404 THEN Ok(<<>>)
    ELSE unwrap_err(handle_response(resp, "list"))

\* download_version on a response: the bytes on 200, the error of 404 and
\* 400, else handle_response::<()>(..).unwrap_err(); "unit" is the body null
DownloadResult(resp) ==
    IF resp.status = 200 THEN Ok(resp.bytes)
    ELSE IF resp.status = 404 THEN Err("VersionNotFound")
    ELSE IF resp.status = 400 THEN Err("UnsupportedPlatform")
    ELSE unwrap_err(handle_response(resp, "unit"))

\* list_versions against the Coordinator
ClientListVersions(st, app) == ListResult(list_versions(st, app).resp)

\* get_latest_version answering before the platform is looked at
GetLatestChecksPlatformLate(st, app, platform) ==
    [result |-> IF platform \notin SUPPORTED_PLATFORMS
                THEN Err("UnsupportedPlatform")
                ELSE Ok(<<>>),
     sent |-> 1]

\* get_latest_version taking the first listed version, whatever it carries
GetLatestIgnoresPlatform(st, app, platform) ==
    IF platform \notin SUPPORTED_PLATFORMS
    THEN [result |-> Err("UnsupportedPlatform"), sent |-> 0]
    ELSE LET listed == ClientListVersions(st, app)
         IN IF listed.tag = "Err" THEN [result |-> listed, sent |-> 1]
            ELSE [result |-> IF listed.value = <<>> THEN Ok(<<>>)
                             ELSE Ok(<<listed.value[1]>>),
                  sent |-> 1]

\* get_latest_version: the first listed version that carries the platform;
\* sent counts the HTTP requests of the call
ClientGetLatestVersionCall(st, app, platform) ==
    IF platform \notin SUPPORTED_PLATFORMS
    THEN [result |-> Err("UnsupportedPlatform"), sent |-> 0]
    ELSE LET listed == ClientListVersions(st, app)
         IN IF listed.tag = "Err" THEN [result |-> listed, sent |-> 1]
            ELSE LET vs == listed.value
                     hit == {i \in DOMAIN vs : platform \in Range(vs[i].platforms)}
                 IN [result |->
                        IF hit = {} THEN Ok(<<>>)
                        ELSE Ok(<<vs[CHOOSE i \in hit : \A j \in hit : i <= j]>>),
                     sent |-> 1]

ClientGetLatestVersion(st, app, platform) ==
    ClientGetLatestVersionCall(st, app, platform).result

\* download_version; sent counts the HTTP requests of the call
ClientDownloadVersionCall(st, app, platform, version) ==
    IF platform \notin SUPPORTED_PLATFORMS
    THEN [result |-> Err("UnsupportedPlatform"), sent |-> 0]
    ELSE LET resp == RouteDownload(st, DownloadUrl(app, platform, version)).resp
         IN [result |-> DownloadResult(resp), sent |-> 1]

ClientDownloadVersion(st, app, platform, version) ==
    ClientDownloadVersionCall(st, app, platform, version).result

\* file_content.chunks(CHUNK_SIZE)
Chunks(data) ==
    [i \in 1..((Len(data) + CHUNK_SIZE - 1) \div CHUNK_SIZE) |->
        SubSeq(data, (i - 1) * CHUNK_SIZE + 1,
               IF i * CHUNK_SIZE < Len(data) THEN i * CHUNK_SIZE ELSE Len(data))]

----------------------------------------------------------------------------
(* The operations of one client, a step per HTTP request.                    *)

\* the platform names of the files a caller uploads
UploadPlatforms == {"macos-arm", "windows-x86_64-gnu", LinuxPlatform}

PlatformTag(p) ==
    IF p = "macos-arm" THEN 10
    ELSE IF p = "macos-intel" THEN 20
    ELSE IF p = "windows-x86_64-gnu" THEN 30
    ELSE 40

\* the n bytes of a file built for platform p
FileBytes(p, n) == [i \in 1..n |-> PlatformTag(p) + i]

\* the files maps (HashMap<String, Vec<u8>>) a caller passes: any set of
\* the platform names, the files of one length
FileMaps(platforms) ==
    {[p \in D |-> FileBytes(p, n)] : D \in SUBSET platforms, n \in 0..MaxLen}

\* version strings with characters a URL gives a meaning to
UrlVersions == {<<"1", "?", "2">>, <<"1", "/", "2">>}

\* what a caller passes: any of the version strings, files for any of the
\* platform names
Safe == [versions |-> SafeVersions, platforms |-> UploadPlatforms]
AnyString == [versions |-> {<<"1">>} \cup UrlVersions,
              platforms |-> UploadPlatforms]
Publisher == [versions |-> SafeVersions,
              platforms |-> {"macos-arm", "windows-x86_64-gnu"}]

\* callers that all publish the same version for the same platform
SameTriple == [versions |-> {<<"1">>}, platforms |-> {"macos-arm"}]

\* a reader asks for the versions uploaded, and for the word "latest"
LatestWord == <<"latest">>
Lookups == [versions |-> SafeVersions \cup {LatestWord},
            platforms |-> UploadPlatforms]

ClientKey == <<API_KEY>>

\* an HTTP request of an operation: its endpoint, and for the requests of
\* an upload the platform and the part number
Req(name, platform, part) == [name |-> name, platform |-> platform, part |-> part]

\* reqs: the requests the operation has sent, in order; sent: their number
NoOp ==
    [pc |-> "idle", op |-> "", app |-> "", version |-> <<>>, platform |-> "",
     files |-> <<>>, todo |-> {}, uploadId |-> 0, idx |-> 0, parts |-> <<>>,
     sent |-> 0, reqs |-> <<>>]

\* the server state after a handler answered a client
Answered(out) ==
    /\ rows' = out.st.rows
    /\ blobs' = out.st.blobs
    /\ sessions' = out.st.sessions
    /\ nextId' = out.st.nextId
    /\ clock' = out.st.clock

\* the operation of c returns result
Return(c, op, result) ==
    /\ hist' = [hist EXCEPT ![c] = Append(@, [op |-> op.op, app |-> op.app,
                                              version |-> op.version,
                                              platform |-> op.platform,
                                              files |-> op.files,
                                              result |-> result,
                                              sent |-> op.sent,
                                              reqs |-> op.reqs])]
    /\ cl' = [cl EXCEPT ![c] = NoOp]

CanStart(c) == cl[c].pc = "idle" /\ Len(hist[c]) < MaxOps

\* upload_version(app_name, version, files) is called
UploadStart(c, cfg) ==
    /\ CanStart(c)
    /\ \E app \in Apps, v \in cfg.versions, files \in FileMaps(cfg.platforms) :
          cl' = [cl EXCEPT ![c] = [NoOp EXCEPT !.pc = "upload_loop",
                                               !.op = "upload", !.app = app,
                                               !.version = v, !.files = files,
                                               !.todo = DOMAIN files]]
    /\ UNCHANGED <<serverVars, wireVars, hist, updaterVars>>

\* the loop is over: Ok(UploadResponse)
UploadDone(c) ==
    /\ cl[c].pc = "upload_loop"
    /\ cl[c].todo = {}
    /\ Return(c, cl[c], Ok(DOMAIN cl[c].files))
    /\ UNCHANGED <<serverVars, wireVars, updaterVars>>

\* the loop reaches a platform outside the supported set
UploadUnsupported(c) ==
    /\ cl[c].pc = "upload_loop"
    /\ \E p \in cl[c].todo :
          /\ p \notin SUPPORTED_PLATFORMS
          /\ Return(c, cl[c], Err("UnsupportedPlatform"))
    /\ UNCHANGED <<serverVars, wireVars, updaterVars>>

\* the loop reaches a supported platform, in whatever order the map
\* iterates: the hash, then mpu-create
UploadCreate(c) ==
    /\ cl[c].pc = "upload_loop"
    /\ \E p \in cl[c].todo :
          /\ p \in SUPPORTED_PLATFORMS
          /\ LET op == [cl[c] EXCEPT !.sent = @ + 1, !.platform = p,
                                     !.todo = @ \ {p},
                                     !.reqs = Append(@, Req("mpu-create", p, 0))]
                 out == handle_multipart_post(ServerState,
                            AuthHeaderOf(ClientKey), op.app,
                            Q(<<"mpu-create">>, <<op.version>>, <<p>>, <<>>, <<>>),
                            <<>>, TRUE)
                 r == handle_response(out.resp, "create")
             IN /\ Answered(out)
                /\ IF r.tag = "Err"
                   THEN Return(c, op, r)
                   ELSE /\ cl' = [cl EXCEPT ![c] =
                                     [op EXCEPT !.pc = "upload_parts",
                                                !.uploadId = r.value.uploadId,
                                                !.idx = 1, !.parts = <<>>]]
                        /\ UNCHANGED hist
    /\ UNCHANGED <<del, wireVars, updaterVars>>

\* an upload of a part that sends its request a second time
UploadPartTwice(c) ==
    /\ cl[c].pc = "upload_parts"
    /\ cl[c].idx <= Len(Chunks(cl[c].files[cl[c].platform]))
    /\ LET rq == Req("mpu-uploadpart", cl[c].platform, cl[c].idx)
           op == [cl[c] EXCEPT !.sent = @ + 2, !.reqs = @ \o <<rq, rq>>]
           out == handle_multipart_put(ServerState, AuthHeaderOf(ClientKey),
                      op.app,
                      Q(<<"mpu-uploadpart">>, <<op.version>>, <<op.platform>>,
                        <<op.uploadId>>, <<op.idx>>),
                      Chunks(op.files[op.platform])[op.idx])
           r == handle_response(out.resp, "part")
       IN /\ Answered(out)
          /\ IF r.tag = "Err"
             THEN Return(c, op, r)
             ELSE /\ cl' = [cl EXCEPT ![c] =
                               [op EXCEPT !.idx = @ + 1,
                                          !.parts = Append(@,
                                              [partNumber |-> r.value.partNumber,
                                               etag |-> r.value.etag])]]
                  /\ UNCHANGED hist
    /\ UNCHANGED <<del, wireVars, updaterVars>>

\* mpu-uploadpart for the next chunk
UploadPart(c) ==
    /\ cl[c].pc = "upload_parts"
    /\ cl[c].idx <= Len(Chunks(cl[c].files[cl[c].platform]))
    /\ LET op == [cl[c] EXCEPT !.sent = @ + 1,
                               !.reqs = Append(@, Req("mpu-uploadpart",
                                                      cl[c].platform, cl[c].idx))]
           out == handle_multipart_put(ServerState, AuthHeaderOf(ClientKey),
                      op.app,
                      Q(<<"mpu-uploadpart">>, <<op.version>>, <<op.platform>>,
                        <<op.uploadId>>, <<op.idx>>),
                      Chunks(op.files[op.platform])[op.idx])
           r == handle_response(out.resp, "part")
       IN /\ Answered(out)
          /\ IF r.tag = "Err"
             THEN Return(c, op, r)
             ELSE /\ cl' = [cl EXCEPT ![c] =
                               [op EXCEPT !.idx = @ + 1,
                                          !.parts = Append(@,
                                              [partNumber |-> r.value.partNumber,
                                               etag |-> r.value.etag])]]
                  /\ UNCHANGED hist
    /\ UNCHANGED <<del, wireVars, updaterVars>>

\* mpu-complete with the parts answered
UploadComplete(c) ==
    /\ cl[c].pc = "upload_parts"
    /\ cl[c].idx > Len(Chunks(cl[c].files[cl[c].platform]))
    /\ \E storeOk \in BOOLEAN :
          LET op == [cl[c] EXCEPT !.sent = @ + 1,
                                  !.reqs = Append(@, Req("mpu-complete",
                                                         cl[c].platform, 0))]
              out == handle_multipart_post(ServerState, AuthHeaderOf(ClientKey),
                         op.app,
                         Q(<<"mpu-complete">>, <<op.version>>, <<op.platform>>,
                           <<op.uploadId>>, <<>>),
                         <<[parts |-> op.parts]>>, storeOk)
              r == handle_response(out.resp, "complete")
          IN /\ Answered(out)
             /\ IF r.tag = "Err"
                THEN Return(c, op, r)
                ELSE /\ cl' = [cl EXCEPT ![c] = [op EXCEPT !.pc = "upload_finish"]]
                     /\ UNCHANGED hist
    /\ UNCHANGED <<del, wireVars, updaterVars>>

\* upload/finish with the hash of the file
UploadFinish(c) ==
    /\ cl[c].pc = "upload_finish"
    /\ LET op == [cl[c] EXCEPT !.sent = @ + 1,
                               !.reqs = Append(@, Req("upload/finish",
                                                      cl[c].platform, 0))]
           out == complete_version_upload(ServerState, AuthHeaderOf(ClientKey),
                      op.app,
                      <<[version |-> op.version, platform |-> op.platform,
                         sha256 |-> Sha256(op.files[op.platform])]>>)
           r == handle_response(out.resp, "finish")
       IN /\ Answered(out)
          /\ IF r.tag = "Err"
             THEN Return(c, op, r)
             ELSE IF ~r.value.success
             THEN Return(c, op, Err("Api"))
             ELSE /\ cl' = [cl EXCEPT ![c] = [op EXCEPT !.pc = "upload_loop"]]
                  /\ UNCHANGED hist
    /\ UNCHANGED <<del, wireVars, updaterVars>>

\* download_version(app_name, platform, version)
Download(c, cfg) ==
    /\ CanStart(c)
    /\ \E app \in Apps, p \in PlatformNames, v \in cfg.versions :
          Return(c, [NoOp EXCEPT !.op = "download", !.app = app, !.version = v,
                                 !.platform = p,
                                 !.sent = ClientDownloadVersionCall(
                                              ServerState, app, p, v).sent,
                                 !.reqs = IF p \in SUPPORTED_PLATFORMS
                                          THEN <<Req("download", p, 0)>>
                                          ELSE <<>>],
                 ClientDownloadVersion(ServerState, app, p, v))
    /\ UNCHANGED <<serverVars, wireVars, updaterVars>>

\* get_latest_version(app_name, platform)
GetLatest(c) ==
    /\ CanStart(c)
    /\ \E app \in Apps, p \in PlatformNames :
          Return(c, [NoOp EXCEPT !.op = "latest", !.app = app, !.platform = p,
                                 !.sent = ClientGetLatestVersionCall(
                                              ServerState, app, p).sent,
                                 !.reqs = IF p \in SUPPORTED_PLATFORMS
                                          THEN <<Req("versions", p, 0)>>
                                          ELSE <<>>],
                 ClientGetLatestVersion(ServerState, app, p))
    /\ UNCHANGED <<serverVars, wireVars, updaterVars>>

\* the DeleteResponse, or the error of the status
DeleteResult(resp) ==
    IF resp.status = 200 THEN handle_response(resp, "delete")
    ELSE IF resp.status = 404 THEN Err("VersionNotFound")
    ELSE unwrap_err(handle_response(resp, "delete"))

\* delete_version(app_name, version): the request is sent
DeleteSend(c, cfg) ==
    /\ CanStart(c)
    /\ \E app \in Apps, v \in cfg.versions :
          LET op == [NoOp EXCEPT !.pc = "delete_wait", !.op = "delete",
                                 !.app = app, !.version = v, !.sent = 1,
                                 !.reqs = <<Req("delete", "", 0)>>]
              route == RouteDelete(DeleteUrl(app, v))
          IN IF route = <<>>
             THEN /\ Return(c, op, DeleteResult(NotFoundResp))
                  /\ UNCHANGED serverVars
             ELSE /\ DeleteStart(c, AuthHeaderOf(ClientKey), route[1], route[2])
                  /\ cl' = [cl EXCEPT ![c] = op]
                  /\ UNCHANGED hist
    /\ UNCHANGED <<wireVars, updaterVars>>

\* the server deletes one blob of the version
ServerDeleteBlob(c) ==
    /\ DeleteBlob(c)
    /\ UNCHANGED <<wireVars, clientVars, updaterVars>>

\* the server deletes the rows of the version
ServerDeleteRows(c) ==
    /\ DeleteRowsStep(c)
    /\ UNCHANGED <<wireVars, clientVars, updaterVars>>

\* delete_version: the response arrives
DeleteRecv(c) ==
    /\ cl[c].pc = "delete_wait"
    /\ del[c].pc = "done"
    /\ Return(c, cl[c], DeleteResult(del[c].resp))
    /\ del' = [del EXCEPT ![c] = NoDelete]
    /\ UNCHANGED <<rows, blobs, sessions, nextId, clock, wireVars, updaterVars>>

\* a failure of upload_version that takes back the rows of the version
UploadFailsAndRollsBack(c) ==
    /\ \E e \in {"Http", "Api"} :
          \/ /\ cl[c].pc = "upload_loop"
             /\ \E p \in cl[c].todo :
                   /\ p \in SUPPORTED_PLATFORMS
                   /\ Return(c, [cl[c] EXCEPT !.sent = @ + 1, !.platform = p,
                                              !.todo = @ \ {p},
                                              !.reqs = Append(@,
                                                  Req("mpu-create", p, 0))],
                             Err(e))
          \/ /\ cl[c].pc = "upload_parts"
             /\ cl[c].idx <= Len(Chunks(cl[c].files[cl[c].platform]))
             /\ Return(c, [cl[c] EXCEPT !.sent = @ + 1,
                                        !.reqs = Append(@,
                                            Req("mpu-uploadpart", cl[c].platform,
                                                cl[c].idx))],
                       Err(e))
          \/ /\ cl[c].pc = "upload_parts"
             /\ cl[c].idx > Len(Chunks(cl[c].files[cl[c].platform]))
             /\ Return(c, [cl[c] EXCEPT !.sent = @ + 1,
                                        !.reqs = Append(@,
                                            Req("mpu-complete", cl[c].platform, 0))],
                       Err(e))
          \/ /\ cl[c].pc = "upload_finish"
             /\ Return(c, [cl[c] EXCEPT !.sent = @ + 1,
                                        !.reqs = Append(@,
                                            Req("upload/finish", cl[c].platform,
                                                0))],
                       Err(e))
    /\ rows' = DeleteRows(rows, cl[c].app, cl[c].version)
    /\ UNCHANGED <<blobs, sessions, nextId, clock, del, wireVars, updaterVars>>

\* the request upload_version sends next fails: .send().await? returns a
\* transport error, or the Coordinator answers 500 before it has done
\* anything (try_or_500!); the operation returns the error
UploadRequestFails(c) ==
    /\ \E e \in {"Http", "Api"} :
          \/ /\ cl[c].pc = "upload_loop"
             /\ \E p \in cl[c].todo :
                   /\ p \in SUPPORTED_PLATFORMS
                   /\ Return(c, [cl[c] EXCEPT !.sent = @ + 1, !.platform = p,
                                              !.todo = @ \ {p},
                                              !.reqs = Append(@,
                                                  Req("mpu-create", p, 0))],
                             Err(e))
          \/ /\ cl[c].pc = "upload_parts"
             /\ cl[c].idx <= Len(Chunks(cl[c].files[cl[c].platform]))
             /\ Return(c, [cl[c] EXCEPT !.sent = @ + 1,
                                        !.reqs = Append(@,
                                            Req("mpu-uploadpart", cl[c].platform,
                                                cl[c].idx))],
                       Err(e))
          \/ /\ cl[c].pc = "upload_parts"
             /\ cl[c].idx > Len(Chunks(cl[c].files[cl[c].platform]))
             /\ Return(c, [cl[c] EXCEPT !.sent = @ + 1,
                                        !.reqs = Append(@,
                                            Req("mpu-complete", cl[c].platform, 0))],
                       Err(e))
          \/ /\ cl[c].pc = "upload_finish"
             /\ Return(c, [cl[c] EXCEPT !.sent = @ + 1,
                                        !.reqs = Append(@,
                                            Req("upload/finish", cl[c].platform,
                                                0))],
                       Err(e))
    /\ UNCHANGED <<serverVars, wireVars, updaterVars>>

\* responses of any server: a status and a body of some kind
AnyResponses ==
    {[status |-> s, kind |-> k, versions |-> <<>>, bytes |-> <<>>] :
        s \in {200, 201, 204, 400, 401, 404, 500},
        k \in {"versions", "list", "unit", "delete", "error", "text"}}

\* an operation of one request, answered by resp
AnswerAny(c, name, resp, result) ==
    /\ Return(c, [NoOp EXCEPT !.op = name, !.app = "demo", !.sent = 1,
                              !.reqs = <<Req(name, "", 0)>>], result)
    /\ lastReq' = [endpoint |-> name, auth |-> <<>>]
    /\ lastResp' = Brief(resp)
    /\ reqSeq' = 1 - reqSeq
    /\ UNCHANGED <<serverVars, updaterVars>>

ListAny(c) ==
    /\ CanStart(c)
    /\ \E resp \in AnyResponses :
          AnswerAny(c, "versions", resp, ListResult(resp))

DownloadAny(c) ==
    /\ CanStart(c)
    /\ \E resp \in AnyResponses :
          AnswerAny(c, "download", resp, DownloadResult(resp))

DeleteAny(c) ==
    /\ CanStart(c)
    /\ \E resp \in AnyResponses :
          AnswerAny(c, "delete", resp, DeleteResult(resp))

\* get_latest_version of a supported platform on a response: the error of
\* list_versions (`?`), else the first listed version with the platform
LatestResult(resp, platform) ==
    LET listed == ListResult(resp)
    IN IF listed.tag # "Ok" THEN listed
       ELSE LET vs == listed.value
                hit == {i \in DOMAIN vs : platform \in Range(vs[i].platforms)}
            IN IF hit = {} THEN Ok(<<>>)
               ELSE Ok(<<vs[CHOOSE i \in hit : \A j \in hit : i <= j]>>)

GetLatestAny(c) ==
    /\ CanStart(c)
    /\ \E resp \in AnyResponses, p \in SUPPORTED_PLATFORMS :
          AnswerAny(c, "latest", resp, LatestResult(resp, p))

\* the steps of a client whose files are all for supported platforms
PublisherNext(c, cfg) ==
    \/ UploadStart(c, cfg)
    \/ UploadDone(c)
    \/ UploadCreate(c)
    \/ UploadPart(c)
    \/ UploadComplete(c)
    \/ UploadFinish(c)
    \/ Download(c, cfg)
    \/ GetLatest(c)
    \/ DeleteSend(c, cfg)
    \/ ServerDeleteBlob(c)
    \/ ServerDeleteRows(c)
    \/ DeleteRecv(c)

ClientNext(c, cfg) ==
    \/ PublisherNext(c, cfg)
    \/ UploadUnsupported(c)

----------------------------------------------------------------------------
(* idle-hue: semantic versions (crate semver).  The version strings of the   *)
(* model carry no pre-release and no build part.                             *)

DigitChars == <<"0", "1", "2", "3", "4", "5", "6", "7", "8", "9">>

DigitVal(c) == (CHOOSE i \in DOMAIN DigitChars : DigitChars[i] = c) - 1

RECURSIVE NumVal(_)
\* the number a sequence of digits writes
NumVal(ds) ==
    IF ds = <<>> THEN 0
    ELSE NumVal(SubSeq(ds, 1, Len(ds) - 1)) * 10 + DigitVal(ds[Len(ds)])

RECURSIVE NumStr(_)
\* a number in decimal digits
NumStr(n) ==
    IF n < 10 THEN <<DigitChars[n + 1]>>
    ELSE NumStr(n \div 10) \o <<DigitChars[(n % 10) + 1]>>

\* a numeric identifier: digits, no leading zero
IsNumeric(part) ==
    /\ part # <<>>
    /\ \A i \in DOMAIN part : part[i] \in Range(DigitChars)
    /\ Len(part) > 1 => part[1] # "0"

\* Version::parse: <<the version>>, or <<>> on an error
SemverParse(str) ==
    LET parts == Split(str, ".")
    IN IF Len(parts) = 3 /\ \A i \in 1..3 : IsNumeric(parts[i])
       THEN <<[major |-> NumVal(parts[1]), minor |-> NumVal(parts[2]),
               patch |-> NumVal(parts[3])]>>
       ELSE <<>>

\* Version's Display
SemverToString(v) ==
    NumStr(v.major) \o <<".">> \o NumStr(v.minor) \o <<".">> \o NumStr(v.patch)

\* a comparison that leaves equal versions out
SemverLeqStrict(a, b) ==
    \/ a.major < b.major
    \/ a.major = b.major /\ a.minor < b.minor
    \/ a.major = b.major /\ a.minor = b.minor /\ a.patch < b.patch

\* a <= b in Version's Ord
SemverLeq(a, b) ==
    \/ a.major < b.major
    \/ a.major = b.major /\ a.minor < b.minor
    \/ a.major = b.major /\ a.minor = b.minor /\ a.patch <= b.patch

----------------------------------------------------------------------------
(* idle-hue: the Auto-Updater and the Update Status.  Every check flow is a  *)
(* task; a step of a flow runs up to its next write of the status.           *)

APP_NAME == "idle-hue"

\* env!("CARGO_PKG_VERSION") of the running build
CurrentVersion == <<"1", ".", "2", ".", "0">>

\* AutoUpdater::new: current_version
current_version ==
    IF SemverParse(CurrentVersion) = <<>>
    THEN [major |-> 0, minor |-> 1, patch |-> 0]
    ELSE SemverParse(CurrentVersion)[1]

\* the builds: env::consts::OS and the target architecture
Targets ==
    {[os |-> "macos", arch |-> "aarch64"], [os |-> "macos", arch |-> "x86_64"],
     [os |-> "windows", arch |-> "x86_64"], [os |-> "linux", arch |-> "x86_64"]}

get_platform_string(target) ==
    IF target.os = "windows" THEN "windows-x86_64-gnu"
    ELSE IF target.os = "macos"
    THEN IF target.arch = "aarch64" THEN "macos-arm" ELSE "macos-intel"
    ELSE LinuxPlatform

\* install_update is compiled for windows and macos only
CanInstall(target) == target.os \in {"windows", "macos"}

St(kind, version) == [kind |-> kind, version |-> version]

Sources == {"click", "timer"}

\* a flow that update_button_clicked has just started: it wrote Checking
\* and has redraw.trigger() to run before check_for_updates.  pending is the
\* value written whose redraw is still to come, notified the values whose
\* redraw was triggered
NewFlow(src) ==
    [src |-> src, pc |-> "lookup", found |-> <<>>, latest |-> <<>>,
     dl |-> "none", inst |-> "none", wrote |-> <<"Checking">>,
     pending |-> <<"Checking">>, notified |-> <<>>]

ActiveFlows ==
    {i \in DOMAIN flows : flows[i].pc # "done" \/ flows[i].pending # <<>>}

\* a write of the status that triggers no redraw
WriteWithoutRedraw(i, s, pc, f) ==
    /\ status' = s
    /\ flows' = [flows EXCEPT ![i] = [f EXCEPT !.pc = pc,
                                               !.wrote = Append(@, s.kind)]]

\* the callback of check_for_updates: flow i writes s and has the redraw
\* to trigger; it goes on at pc after that
Callback(i, s, pc, f) ==
    /\ status' = s
    /\ flows' = [flows EXCEPT ![i] = [f EXCEPT !.pc = pc,
                                               !.wrote = Append(@, s.kind),
                                               !.pending = <<s.kind>>]]

\* update_button_clicked, under the lock: restart on Updated; else, unless
\* the status is Checking, write Checking and run check_for_updates.
\* restart_application exits unless finding or spawning the executable fails
update_button_clicked(src) ==
    /\ ~exited
    /\ triggers' = [triggers EXCEPT ![src] = @ + 1]
    /\ IF status.kind = "Updated"
       THEN /\ \E relaunched \in BOOLEAN : exited' = relaunched
            /\ UNCHANGED <<status, flows>>
       ELSE IF status.kind # "Checking"
       THEN /\ status' = St("Checking", <<>>)
            /\ flows' = Append(flows, NewFlow(src))
            /\ UNCHANGED exited
       ELSE UNCHANGED <<status, flows, exited>>
    /\ UNCHANGED <<serverVars, wireVars, clientVars, downloads, installs,
                   netReqs, os, disk>>

\* the button's on_click spawns a task that runs update_button_clicked
Click ==
    /\ triggers["click"] + triggers["timer"] < MaxTriggers
    /\ update_button_clicked("click")

\* on_start's loop: interval.tick(), then update_button_clicked awaited, so
\* the next tick waits for the flow of the last one
Tick ==
    /\ triggers["click"] + triggers["timer"] < MaxTriggers
    /\ \A i \in ActiveFlows : flows[i].src # "timer"
    /\ update_button_clicked("timer")

\* what a request of the updater's client may end in: the result of the
\* response, or a transport error when a request is sent
Outcomes(call) ==
    IF call.sent = 0 THEN {call.result} ELSE {call.result, Err("Http")}

\* a lookup that takes "no release" for "up to date"
FlowLookupNoneIsUpToDate(i) ==
    /\ ~exited
    /\ i \in DOMAIN flows
    /\ flows[i].pending = <<>>
    /\ flows[i].pc = "lookup"
    /\ LET call == ClientGetLatestVersionCall(ServerState, APP_NAME,
                                              get_platform_string(os))
       IN /\ netReqs' = netReqs + call.sent
          /\ \E found \in Outcomes(call) :
                LET f == [flows[i] EXCEPT !.found = <<found>>]
                IN IF found.tag = "Err"
                   THEN Callback(i, St("Error", <<>>), "hold", f)
                   ELSE IF found.value = <<>>
                   THEN Callback(i, St("UpToDate", <<current_version>>), "hold", f)
                   ELSE LET latest == SemverParse(found.value[1].version)
                        IN IF latest = <<>>
                           THEN Callback(i, St("Error", <<>>), "hold", f)
                           ELSE IF SemverLeq(latest[1], current_version)
                           THEN Callback(i, St("UpToDate", latest), "hold", f)
                           ELSE Callback(i, St("Downloading", latest),
                                         "download",
                                         [f EXCEPT !.latest = latest])
    /\ UNCHANGED <<serverVars, wireVars, clientVars, triggers, downloads,
                   installs, exited, os, disk>>

\* check_and_install_updates_with_callback up to its first callback: the
\* lookup, the parse and the comparison
FlowLookup(i) ==
    /\ ~exited
    /\ i \in DOMAIN flows
    /\ flows[i].pending = <<>>
    /\ flows[i].pc = "lookup"
    /\ LET call == ClientGetLatestVersionCall(ServerState, APP_NAME,
                                              get_platform_string(os))
       IN /\ netReqs' = netReqs + call.sent
          /\ \E found \in Outcomes(call) :
                LET f == [flows[i] EXCEPT !.found = <<found>>]
                IN IF found.tag = "Err" \/ found.value = <<>>
                   THEN Callback(i, St("Error", <<>>), "hold", f)
                   ELSE LET latest == SemverParse(found.value[1].version)
                        IN IF latest = <<>>
                           THEN Callback(i, St("Error", <<>>), "hold", f)
                           ELSE IF SemverLeq(latest[1], current_version)
                           THEN Callback(i, St("UpToDate", latest), "hold", f)
                           ELSE Callback(i, St("Downloading", latest),
                                         "download",
                                         [f EXCEPT !.latest = latest])
    /\ UNCHANGED <<serverVars, wireVars, clientVars, triggers, downloads,
                   installs, exited, os, disk>>

\* download_and_install_update_with_callback: the download and the write of
\* the archive to a temporary file, which may fail as well
FlowDownload(i) ==
    /\ ~exited
    /\ i \in DOMAIN flows
    /\ flows[i].pending = <<>>
    /\ flows[i].pc = "download"
    /\ LET call == ClientDownloadVersionCall(ServerState, APP_NAME,
                       get_platform_string(os),
                       SemverToString(flows[i].latest[1]))
       IN /\ netReqs' = netReqs + call.sent
          /\ downloads' = downloads + call.sent
          /\ \E got \in Outcomes(call) \cup {Err("Io")} :
                IF got.tag = "Ok"
                THEN Callback(i, St("Installing", flows[i].latest), "install",
                              [flows[i] EXCEPT !.dl = "ok"])
                ELSE Callback(i, St("Error", <<>>), "hold",
                              [flows[i] EXCEPT !.dl = "fail"])
    /\ UNCHANGED <<serverVars, wireVars, clientVars, triggers, installs,
                   exited, os, disk>>

\* install_update, then the callback of Updated
FlowInstall(i) ==
    /\ ~exited
    /\ i \in DOMAIN flows
    /\ flows[i].pending = <<>>
    /\ flows[i].pc = "install"
    /\ installs' = installs + 1
    /\ \E installed \in (IF CanInstall(os) THEN BOOLEAN ELSE {FALSE}) :
          IF installed
          THEN Callback(i, St("Updated", flows[i].latest), "updated",
                        [flows[i] EXCEPT !.inst = "ok"])
          ELSE Callback(i, St("Error", <<>>), "hold",
                        [flows[i] EXCEPT !.inst = "fail"])
    /\ UNCHANGED <<serverVars, wireVars, clientVars, triggers, downloads,
                   netReqs, exited, os, disk>>

\* check_and_install_updates_with_callback, Ok(_): Updated is written again
FlowUpdated(i) ==
    /\ ~exited
    /\ i \in DOMAIN flows
    /\ flows[i].pending = <<>>
    /\ flows[i].pc = "updated"
    /\ Callback(i, St("Updated", flows[i].latest), "done", flows[i])
    /\ UNCHANGED <<serverVars, wireVars, clientVars, triggers, downloads,
                   installs, netReqs, exited, os, disk>>

\* a flow that only ends
FlowHoldEndsSilently(i) ==
    /\ ~exited
    /\ i \in DOMAIN flows
    /\ flows[i].pending = <<>>
    /\ flows[i].pc = "hold"
    /\ flows' = [flows EXCEPT ![i].pc = "done"]
    /\ UNCHANGED <<serverVars, wireVars, clientVars, status, triggers,
                   downloads, installs, netReqs, exited, os, disk>>

\* after UpToDate or Error: sleep(2 s), then the callback of Idle
FlowHoldEnd(i) ==
    /\ ~exited
    /\ i \in DOMAIN flows
    /\ flows[i].pending = <<>>
    /\ flows[i].pc = "hold"
    /\ Callback(i, St("Idle", <<>>), "done", flows[i])
    /\ UNCHANGED <<serverVars, wireVars, clientVars, triggers, downloads,
                   installs, netReqs, exited, os, disk>>

\* redraw.trigger().await, after the write of the trigger or of a callback
FlowRedraw(i) ==
    /\ ~exited
    /\ i \in DOMAIN flows
    /\ flows[i].pending # <<>>
    /\ flows' = [flows EXCEPT ![i].pending = <<>>,
                              ![i].notified = Append(@, flows[i].pending[1])]
    /\ UNCHANGED <<serverVars, wireVars, clientVars, status, triggers,
                   downloads, installs, netReqs, exited, os, disk>>

MaxFlows == MaxTriggers

\* the releases a publisher has uploaded, in order: the registries the
\* updater is run against
V110 == <<"1", ".", "1", ".", "0">>
V130 == <<"1", ".", "3", ".", "0">>
V1100 == <<"1", ".", "1", "0", ".", "0">>
VNoPatch == <<"1", ".", "3">>

Rel(version, platform) == [version |-> version, platform |-> platform]

Registries ==
    {<<>>,
     <<Rel(CurrentVersion, "macos-arm")>>,
     <<Rel(V130, "macos-arm")>>,
     <<Rel(V1100, "macos-arm")>>,
     <<Rel(VNoPatch, "macos-arm")>>,
     <<Rel(V130, "windows-x86_64-gnu")>>,
     <<Rel(V130, "macos-arm"), Rel(V110, "macos-arm")>>,
     <<Rel(V110, "macos-arm"), Rel(V130, "macos-arm")>>}

\* the server after upload_version(app, version, {platform: data}) of a
\* one-chunk file: mpu-create, mpu-uploadpart, mpu-complete, upload/finish
AfterUpload(st, app, version, platform, data) ==
    LET auth == AuthHeaderOf(ClientKey)
        created == handle_multipart_post(st, auth, app,
                       Q(<<"mpu-create">>, <<version>>, <<platform>>, <<>>, <<>>),
                       <<>>, TRUE)
        id == created.resp.uploadId
        part == handle_multipart_put(created.st, auth, app,
                    Q(<<"mpu-uploadpart">>, <<version>>, <<platform>>, <<id>>,
                      <<1>>),
                    data)
        completed == handle_multipart_post(part.st, auth, app,
                         Q(<<"mpu-complete">>, <<version>>, <<platform>>, <<id>>,
                           <<>>),
                         <<[parts |-> <<[partNumber |-> part.resp.partNumber,
                                         etag |-> part.resp.etag]>>]>>,
                         TRUE)
    IN complete_version_upload(completed.st, auth, app,
           <<[version |-> version, platform |-> platform,
              sha256 |-> Sha256(data)]>>).st

EmptyServer ==
    [rows |-> {}, blobs |-> <<>>, sessions |-> <<>>, nextId |-> 1, clock |-> 1]

RECURSIVE ServerAfter(_, _)
\* the server after the releases of app were uploaded one after another
ServerAfter(app, releases) ==
    IF releases = <<>> THEN EmptyServer
    ELSE LET r == releases[Len(releases)]
         IN AfterUpload(ServerAfter(app, SubSeq(releases, 1, Len(releases) - 1)),
                        app, r.version, r.platform, FileBytes(r.platform, 1))

\* the server after the releases of idle-hue were uploaded
RegistryAfter(releases) == ServerAfter(APP_NAME, releases)

\* the uploads a publisher may have made of one app: up to MaxReleases
\* uploads, each of one version for one platform
Releases ==
    {Rel(v, p) : v \in SafeVersions, p \in {"macos-arm", "windows-x86_64-gnu"}}

ReleaseSeqs == UNION {[1..n -> Releases] : n \in 0..MaxReleases}

----------------------------------------------------------------------------
(* idle-hue: install_windows and extract_zip on a file system.  A path is a  *)
(* sequence of components; a file system maps the paths of its files to      *)
(* their bytes.  A step of the install is one call that writes files.        *)

\* temp_dir.path() of install_windows
ExtractDir == <<"tmp", "x">>
\* current_exe.parent() and current_exe.file_name()
InstallDir == <<"app">>
ExeName == "idle-hue.exe"

\* install_windows: target_exe, backup_exe, new_exe
TargetExe == InstallDir \o <<ExeName>>
BackupExe == InstallDir \o <<"idle-hue.exe.backup">>
NewExe == ExtractDir \o <<ExeName>>

\* the bytes of the running executable, of the released one, and of a
\* backup an earlier install left
OldBytes == <<1, 2>>
NewBytes == <<3, 4>>
StaleBytes == <<9>>

\* file.name() of an archive entry: absolute or not, and its components
Name(abs, comps) == [abs |-> abs, comps |-> comps]

\* names that stay under the directory they are joined to, and names that
\* an archive can carry as well: with '..' components, or absolute
PlainNames == {Name(FALSE, <<ExeName>>), Name(FALSE, <<"lib", "a.dll">>)}
EscapingNames == {Name(FALSE, <<"..", "..", "app", ExeName>>),
                  Name(TRUE, <<"app", ExeName>>)}

\* the archives with entries of these names
Archives(names) ==
    UNION {[1..n -> {[name |-> nm, data |-> NewBytes] : nm \in names}] :
              n \in 0..MaxEntries}

\* Path::join: an absolute path replaces the directory
PathJoin(dir, name) == IF name.abs THEN name.comps ELSE dir \o name.comps

RECURSIVE Resolve(_, _)
\* the file a path names when it is opened: '..' steps to the parent
Resolve(path, acc) ==
    IF path = <<>> THEN acc
    ELSE IF Head(path) = ".."
    THEN Resolve(Tail(path),
                 IF acc = <<>> THEN <<>> ELSE SubSeq(acc, 1, Len(acc) - 1))
    ELSE Resolve(Tail(path), Append(acc, Head(path)))

\* extract_zip: outpath = extract_to.join(file.name())
OutPath(extract_to, name) == Resolve(PathJoin(extract_to, name), <<>>)

WriteFile(fs, path, data) ==
    [p \in DOMAIN fs \cup {path} |-> IF p = path THEN data ELSE fs[p]]

RemoveFile(fs, path) == [p \in DOMAIN fs \ {path} |-> fs[p]]

\* what a write of data to path leaves when it fails: the file as it was
\* (it could not be opened), or created and cut short
FailedWrites(fs, path, data) ==
    {fs} \cup {WriteFile(fs, path, SubSeq(data, 1, k)) : k \in 0..(Len(data) - 1)}

\* fs::copy(from, to): the destination is opened for writing, emptied, and
\* the bytes are copied; a failure on the way leaves it as it was, cut
\* short, or removed
CopyOutcomes(fs, from, to) ==
    IF from \notin DOMAIN fs THEN {[ok |-> FALSE, fs |-> fs]}
    ELSE {[ok |-> TRUE, fs |-> WriteFile(fs, to, fs[from])]}
            \cup {[ok |-> FALSE, fs |-> f] :
                     f \in FailedWrites(fs, to, fs[from])
                              \cup {RemoveFile(fs, to)}}

\* no install is running
NoInstall == [pc |-> "none", fs |-> <<>>, archive |-> <<>>, idx |-> 0,
              result |-> "none"]

InstallUnchanged ==
    UNCHANGED <<serverVars, wireVars, clientVars, status, flows, triggers,
                downloads, installs, netReqs, exited, os>>

\* extract_zip, one entry: File::create(outpath) and io::copy
ExtractEntry ==
    /\ disk.pc = "extract"
    /\ disk.idx <= Len(disk.archive)
    /\ LET e == disk.archive[disk.idx]
           outpath == OutPath(ExtractDir, e.name)
       IN \/ disk' = [disk EXCEPT !.fs = WriteFile(@, outpath, e.data),
                                  !.idx = @ + 1]
          \/ \E f \in FailedWrites(disk.fs, outpath, e.data) :
                disk' = [disk EXCEPT !.fs = f, !.pc = "done", !.result = "Err"]
    /\ InstallUnchanged

\* extract_zip returns Ok(())
ExtractDone ==
    /\ disk.pc = "extract"
    /\ disk.idx > Len(disk.archive)
    /\ disk' = [disk EXCEPT !.pc = "backup"]
    /\ InstallUnchanged

\* fs::copy(&target_exe, &backup_exe).await?
BackupCopy ==
    /\ disk.pc = "backup"
    /\ \E o \in CopyOutcomes(disk.fs, TargetExe, BackupExe) :
          disk' = IF o.ok THEN [disk EXCEPT !.fs = o.fs, !.pc = "copy"]
                  ELSE [disk EXCEPT !.fs = o.fs, !.pc = "done", !.result = "Err"]
    /\ InstallUnchanged

\* fs::copy(&new_exe, &target_exe).await?; Ok(())
CopyNew ==
    /\ disk.pc = "copy"
    /\ \E o \in CopyOutcomes(disk.fs, NewExe, TargetExe) :
          disk' = [disk EXCEPT !.fs = o.fs, !.pc = "done",
                               !.result = IF o.ok THEN "Ok" ELSE "Err"]
    /\ InstallUnchanged

----------------------------------------------------------------------------
(* The initial state *)

InitServer ==
    /\ rows = {}
    /\ blobs = <<>>
    /\ sessions = <<>>
    /\ nextId = 1
    /\ clock = 1
    /\ del = [r \in Requesters |-> NoDelete]
    /\ lastReq = [endpoint |-> "none", auth |-> <<>>]
    /\ lastResp = [status |-> 0, kind |-> "none"]
    /\ reqSeq = 0

InitClients ==
    /\ cl = [c \in Clients |-> NoOp]
    /\ hist = [c \in Clients |-> <<>>]

InitUpdater ==
    /\ status = St("Idle", <<>>)
    /\ flows = <<>>
    /\ triggers = [src \in Sources |-> 0]
    /\ downloads = 0
    /\ installs = 0
    /\ netReqs = 0
    /\ exited = FALSE
    /\ os = [os |-> "macos", arch |-> "aarch64"]
    /\ disk = NoInstall

Init == InitServer /\ InitClients /\ InitUpdater

\* the Coordinator under the requests of any authenticated sender
Next ==
    \/ RawMpuCreate(Plain)
    \/ RawMpuUploadPart(Plain)
    \/ RawMpuComplete(Plain)
    \/ RawMpuAbort(Plain)
    \/ RawFinish(Plain)
    \/ RawDeleteStart(Plain)
    \/ RawDeleteBlob
    \/ RawDeleteRows(Plain)
    \/ RawDeleteEnd

Spec == Init /\ [][Next]_vars

\* the Coordinator under requests with any Authorization header, the
\* responses observed
WireNext ==
    \/ RawMpuCreate(Wire)
    \/ RawMpuUploadPart(Wire)
    \/ RawMpuComplete(Wire)
    \/ RawMpuAbort(Wire)
    \/ RawFinish(Wire)
    \/ RawListVersions(Wire)
    \/ RawDownload(Wire)
    \/ RawDeleteStart(Wire)
    \/ RawDeleteBlob
    \/ RawDeleteRows(Wire)
    \/ RawDeleteEnd

WireSpec == Init /\ [][WireNext]_vars

\* one client running operations one after another on version strings that
\* a URL path carries unchanged
ClientSpec == Init /\ [][ClientNext("c1", Safe)]_vars

\* one client running operations on any version string
AnyVersionSpec == Init /\ [][ClientNext("c1", AnyString)]_vars

\* one client publishing files for supported platforms, reading and deleting
PublisherSpec == Init /\ [][PublisherNext("c1", Publisher)]_vars

\* a registry left by some uploads of one app
RegistryServer ==
    /\ \E rel \in ReleaseSeqs :
          /\ rows = ServerAfter("demo", rel).rows
          /\ blobs = ServerAfter("demo", rel).blobs
          /\ sessions = ServerAfter("demo", rel).sessions
          /\ nextId = ServerAfter("demo", rel).nextId
          /\ clock = ServerAfter("demo", rel).clock
    /\ del = [r \in Requesters |-> NoDelete]
    /\ lastReq = [endpoint |-> "none", auth |-> <<>>]
    /\ lastResp = [status |-> 0, kind |-> "none"]
    /\ reqSeq = 0

RegistryInit == RegistryServer /\ InitClients /\ InitUpdater

RegistryNext ==
    \/ GetLatest("c1")
    \/ Download("c1", Lookups)

\* one client reading a registry that uploads have filled
RegistrySpec == RegistryInit /\ [][RegistryNext]_vars

\* the updater of one build against a registry that holds some releases
\* two clients, each running upload_version for the same triple, their
\* requests interleaved in every way
ConcurrentUploadInit ==
    /\ InitServer
    /\ \E f \in [Clients -> FileMaps(SameTriple.platforms) \ {<<>>}] :
          cl = [c \in Clients |->
                   [NoOp EXCEPT !.pc = "upload_loop", !.op = "upload",
                                !.app = "demo", !.version = <<"1">>,
                                !.files = f[c], !.todo = DOMAIN f[c]]]
    /\ hist = [c \in Clients |-> <<>>]
    /\ InitUpdater

ConcurrentUploadNext ==
    \E c \in Clients :
       \/ UploadDone(c)
       \/ UploadCreate(c)
       \/ UploadPart(c)
       \/ UploadComplete(c)
       \/ UploadFinish(c)

ConcurrentUploadSpec == ConcurrentUploadInit /\ [][ConcurrentUploadNext]_vars

\* requests that are not valid, from an authenticated sender, the response
\* of each recorded
Bad == [headers |-> {GoodAuth}, platforms |-> {LinuxPlatform}, wire |-> TRUE]

\* the query pairs an action of /:app/upload reads
Needed(action) ==
    IF action = "mpu-create" THEN {"version", "platform"}
    ELSE IF action = "mpu-uploadpart"
    THEN {"version", "platform", "uploadId", "partNumber"}
    ELSE {"version", "platform", "uploadId"}

\* the queries for an action, each pair present or not, the platform a
\* supported one or not; partNumber is absent too when it is not a u16
Queries(action) ==
    {Q(a, v, p, id, n) :
        a \in {<<>>, <<action>>}, v \in {<<>>} \cup {<<x>> : x \in RawVersions},
        p \in {<<>>, <<"macos-arm">>, <<LinuxPlatform>>},
        id \in {<<>>} \cup {<<i>> : i \in 1..MaxUploads},
        n \in IF action = "mpu-uploadpart"
              THEN {<<>>} \cup {<<i>> : i \in RawPartNumbers}
              ELSE {<<>>}}

\* a query that is not valid: a pair the action reads is missing, or the
\* platform is not a supported one
BadQuery(action, q) ==
    \/ q.action = <<>>
    \/ \E f \in Needed(action) : q[f] = <<>>
    \/ q.platform # <<>> /\ q.platform[1] \notin SUPPORTED_PLATFORMS

BadMpuCreate ==
    /\ nextId <= MaxUploads
    /\ \E app \in Apps, q \in Queries("mpu-create") :
          /\ BadQuery("mpu-create", q)
          /\ Served(Bad, "mpu-create", GoodAuth,
                    handle_multipart_post(ServerState, GoodAuth, app, q, <<>>,
                                          TRUE))
    /\ UNCHANGED <<del, clientVars, updaterVars>>

BadMpuUploadPart ==
    /\ \E app \in Apps, q \in Queries("mpu-uploadpart"), body \in RawChunks :
          /\ BadQuery("mpu-uploadpart", q)
          /\ Served(Bad, "mpu-uploadpart", GoodAuth,
                    handle_multipart_put(ServerState, GoodAuth, app, q, body))
    /\ UNCHANGED <<del, clientVars, updaterVars>>

\* mpu-complete with a query that is not valid or a body that does not parse
BadMpuComplete ==
    /\ \E app \in Apps, q \in Queries("mpu-complete"), id \in 1..MaxUploads :
          \E body \in {<<>>} \cup {<<[parts |-> ps]>> : ps \in PartListsOf(id)} :
             /\ BadQuery("mpu-complete", q) \/ body = <<>>
             /\ Served(Bad, "mpu-complete", GoodAuth,
                       handle_multipart_post(ServerState, GoodAuth, app, q, body,
                                             TRUE))
    /\ UNCHANGED <<del, clientVars, updaterVars>>

BadMpuAbort ==
    /\ \E app \in Apps, q \in Queries("mpu-abort") :
          /\ BadQuery("mpu-abort", q)
          /\ Served(Bad, "mpu-abort", GoodAuth,
                    handle_multipart_delete(ServerState, GoodAuth, app, q))
    /\ UNCHANGED <<del, clientVars, updaterVars>>

\* upload/finish with a body that does not parse or an unsupported platform
BadFinish ==
    /\ clock <= MaxClock
    /\ \E app \in Apps, v \in RawVersions, data \in RawChunks :
          \E body \in {<<>>, <<[version |-> v, platform |-> LinuxPlatform,
                               sha256 |-> Sha256(data)]>>} :
             Served(Bad, "upload/finish", GoodAuth,
                    complete_version_upload(ServerState, GoodAuth, app, body))
    /\ UNCHANGED <<del, clientVars, updaterVars>>

\* the Coordinator under authenticated requests none of which is valid
BadRequestNext ==
    \/ BadMpuCreate
    \/ BadMpuUploadPart
    \/ BadMpuComplete
    \/ BadMpuAbort
    \/ BadFinish
    \/ RawDownload(Bad)

BadRequestSpec == Init /\ [][BadRequestNext]_vars

\* one client publishing files for supported platforms, again and again
RepublishNext ==
    \/ UploadStart("c1", Publisher)
    \/ UploadDone("c1")
    \/ UploadCreate("c1")
    \/ UploadPart("c1")
    \/ UploadComplete("c1")
    \/ UploadFinish("c1")

RepublishSpec == Init /\ [][RepublishNext]_vars

\* a registry that holds the releases of two apps
CatalogApps == {"demo", "other"}

CatalogReleases ==
    {[app |-> a, version |-> v, platform |-> p] :
        a \in CatalogApps, v \in SafeVersions,
        p \in {"macos-arm", "windows-x86_64-gnu"}}

RECURSIVE CatalogAfter(_)
\* the server after the releases were uploaded one after another
CatalogAfter(releases) ==
    IF releases = <<>> THEN EmptyServer
    ELSE LET r == releases[Len(releases)]
         IN AfterUpload(CatalogAfter(SubSeq(releases, 1, Len(releases) - 1)),
                        r.app, r.version, r.platform, FileBytes(r.platform, 1))

CatalogInit ==
    /\ \E rel \in UNION {[1..n -> CatalogReleases] : n \in 0..MaxReleases} :
          /\ rows = CatalogAfter(rel).rows
          /\ blobs = CatalogAfter(rel).blobs
          /\ sessions = CatalogAfter(rel).sessions
          /\ nextId = CatalogAfter(rel).nextId
          /\ clock = CatalogAfter(rel).clock
    /\ del = [r \in Requesters |-> NoDelete]
    /\ lastReq = [endpoint |-> "none", auth |-> <<>>]
    /\ lastResp = [status |-> 0, kind |-> "none"]
    /\ reqSeq = 0
    /\ InitClients
    /\ InitUpdater

\* list_versions(app_name)
ListVersions(c) ==
    /\ CanStart(c)
    /\ \E app \in CatalogApps :
          Return(c, [NoOp EXCEPT !.op = "list", !.app = app, !.sent = 1,
                                 !.reqs = <<Req("versions", "", 0)>>],
                 ClientListVersions(ServerState, app))
    /\ UNCHANGED <<serverVars, wireVars, updaterVars>>

\* one client listing the versions of either app
CatalogSpec == CatalogInit /\ [][ListVersions("c1")]_vars

\* install_windows is called with an archive of the given entry names, on
\* a windows build whose install directory holds the running executable
\* and, after an earlier install, a backup
InstallInit(names) ==
    /\ InitServer
    /\ InitClients
    /\ status = St("Installing", <<>>)
    /\ flows = <<>>
    /\ triggers = [src \in Sources |-> 0]
    /\ downloads = 0
    /\ installs = 0
    /\ netReqs = 0
    /\ exited = FALSE
    /\ os = [os |-> "windows", arch |-> "x86_64"]
    /\ \E a \in Archives(names), old \in {<<>>, (BackupExe :> StaleBytes)} :
          disk = [pc |-> "extract",
                  fs |-> WriteFile(old, TargetExe, OldBytes),
                  archive |-> a, idx |-> 1, result |-> "none"]

InstallNext ==
    \/ ExtractEntry
    \/ ExtractDone
    \/ BackupCopy
    \/ CopyNew

\* an install of an archive whose entries stay in the extraction directory
InstallSpec == InstallInit(PlainNames) /\ [][InstallNext]_vars

\* an install of an archive with any entry names
AnyArchiveSpec ==
    InstallInit(PlainNames \cup EscapingNames) /\ [][InstallNext]_vars

\* upload_version is called on a registry that holds some releases; the
\* client lists the versions after it has returned
ListAfterUploadInit ==
    /\ RegistryServer
    /\ \E v \in SafeVersions, f \in FileMaps(Publisher.platforms) :
          cl = [c \in Clients |->
                   IF c = "c1"
                   THEN [NoOp EXCEPT !.pc = "upload_loop", !.op = "upload",
                                     !.app = "demo", !.version = v,
                                     !.files = f, !.todo = DOMAIN f]
                   ELSE NoOp]
    /\ hist = [c \in Clients |-> <<>>]
    /\ InitUpdater

ListAfterUploadNext ==
    \/ UploadDone("c1")
    \/ UploadCreate("c1")
    \/ UploadPart("c1")
    \/ UploadComplete("c1")
    \/ UploadFinish("c1")
    \/ ListVersions("c1")

ListAfterUploadSpec == ListAfterUploadInit /\ [][ListAfterUploadNext]_vars

\* one client whose requests a server answers with any status and body
AnyServerNext ==
    \/ ListAny("c1")
    \/ GetLatestAny("c1")
    \/ DownloadAny("c1")
    \/ DeleteAny("c1")

AnyServerSpec == Init /\ [][AnyServerNext]_vars

\* one client in upload_version, any request of which may fail; it reads
\* and deletes afterwards
FaultyUploadInit ==
    /\ InitServer
    /\ \E f \in FileMaps(Publisher.platforms) \ {<<>>} :
          cl = [c \in Clients |->
                   IF c = "c1"
                   THEN [NoOp EXCEPT !.pc = "upload_loop", !.op = "upload",
                                     !.app = "demo", !.version = <<"1">>,
                                     !.files = f, !.todo = DOMAIN f]
                   ELSE NoOp]
    /\ hist = [c \in Clients |-> <<>>]
    /\ InitUpdater

FaultyUploadNext ==
    \/ UploadDone("c1")
    \/ UploadCreate("c1")
    \/ UploadPart("c1")
    \/ UploadComplete("c1")
    \/ UploadFinish("c1")
    \/ UploadRequestFails("c1")
    \/ Download("c1", SameTriple)
    \/ GetLatest("c1")
    \/ DeleteSend("c1", SameTriple)
    \/ ServerDeleteBlob("c1")
    \/ ServerDeleteRows("c1")
    \/ DeleteRecv("c1")

FaultyUploadSpec == FaultyUploadInit /\ [][FaultyUploadNext]_vars

\* a registry filled by uploads; then c1 runs upload_version for a triple
\* while c2 runs delete_version for its version, their steps interleaved
DeleteVsUploadInit ==
    /\ RegistryServer
    /\ \E f \in FileMaps(SameTriple.platforms) \ {<<>>} :
          cl = [c \in Clients |->
                   IF c = "c1"
                   THEN [NoOp EXCEPT !.pc = "upload_loop", !.op = "upload",
                                     !.app = "demo", !.version = <<"1">>,
                                     !.files = f, !.todo = DOMAIN f]
                   ELSE NoOp]
    /\ hist = [c \in Clients |-> <<>>]
    /\ InitUpdater

DeleteVsUploadNext ==
    \/ UploadDone("c1")
    \/ UploadCreate("c1")
    \/ UploadPart("c1")
    \/ UploadComplete("c1")
    \/ UploadFinish("c1")
    \/ DeleteSend("c2", SameTriple)
    \/ ServerDeleteBlob("c2")
    \/ ServerDeleteRows("c2")
    \/ DeleteRecv("c2")

DeleteVsUploadSpec == DeleteVsUploadInit /\ [][DeleteVsUploadNext]_vars

\* a registry filled by uploads, then deletions during which the store or
\* the database may refuse an operation
DeleteFaultNext ==
    \/ RawDeleteStart(Plain)
    \/ RawDeleteBlob
    \/ RawDeleteBlobFails(Plain)
    \/ RawDeleteRows(Plain)
    \/ RawDeleteRowsFails(Plain)
    \/ RawDeleteEnd

DeleteFaultSpec == RegistryInit /\ [][DeleteFaultNext]_vars

UpdaterBuilds == {[os |-> "macos", arch |-> "aarch64"],
                  [os |-> "linux", arch |-> "x86_64"]}

UpdaterInit ==
    /\ \E reg \in Registries :
          /\ rows = RegistryAfter(reg).rows
          /\ blobs = RegistryAfter(reg).blobs
          /\ sessions = RegistryAfter(reg).sessions
          /\ nextId = RegistryAfter(reg).nextId
          /\ clock = RegistryAfter(reg).clock
    /\ del = [r \in Requesters |-> NoDelete]
    /\ lastReq = [endpoint |-> "none", auth |-> <<>>]
    /\ lastResp = [status |-> 0, kind |-> "none"]
    /\ reqSeq = 0
    /\ InitClients
    /\ status = St("Idle", <<>>)
    /\ flows = <<>>
    /\ triggers = [src \in Sources |-> 0]
    /\ downloads = 0
    /\ installs = 0
    /\ netReqs = 0
    /\ exited = FALSE
    /\ os \in UpdaterBuilds
    /\ disk = NoInstall

FlowStep(i) ==
    \/ FlowLookup(i)
    \/ FlowDownload(i)
    \/ FlowInstall(i)
    \/ FlowUpdated(i)
    \/ FlowHoldEnd(i)
    \/ FlowRedraw(i)

UpdaterNext ==
    \/ Click
    \/ Tick
    \/ \E i \in 1..MaxFlows : FlowStep(i)

UpdaterSpec == UpdaterInit /\ [][UpdaterNext]_vars

\* the 2-second sleep of a flow ends (tokio's timer), the callback that
\* follows it gets the lock, and an awaited redraw.trigger() completes
FairUpdaterSpec ==
    UpdaterSpec /\ \A i \in 1..MaxFlows :
                      WF_vars(FlowHoldEnd(i)) /\ WF_vars(FlowRedraw(i))

----------------------------------------------------------------------------
(* Claims about the Coordinator *)

RowKey(r) == FileKey(r.app_name, r.version, r.platform)

\* C1: in every reachable state, every registry row (app, version, platform)
\* has a completed blob in the artifact store at its key
C1_RowsHaveBlobs == \A r \in rows : RowKey(r) \in DOMAIN blobs

MutatingEndpoints ==
    {"mpu-create", "mpu-uploadpart", "mpu-complete", "mpu-abort",
     "upload/finish", "delete"}

ReadEndpoints == {"versions", "download"}

\* C7: a mutating endpoint answers 401 with an {error} body and leaves the
\* store and the registry as they were whenever the Authorization header is
\* not "Bearer " followed by the configured key; a read endpoint never
\* answers 401, whatever the header
C7_AuthRequired ==
    /\ [](/\ (lastReq.endpoint \in MutatingEndpoints /\ lastReq.auth # GoodAuth)
                => (lastResp.status = 401 /\ lastResp.kind = "error")
          /\ lastReq.endpoint \in ReadEndpoints => lastResp.status # 401)
    /\ [][(/\ reqSeq' # reqSeq
           /\ lastReq'.endpoint \in MutatingEndpoints
           /\ lastReq'.auth # GoodAuth)
             => (rows' = rows /\ blobs' = blobs /\ sessions' = sessions)]_vars

\* a request to abort an open session, sent with another key, was answered
\* 401 while the registry had a row
C7_Witness ==
    /\ lastReq.endpoint = "mpu-abort"
    /\ lastReq.auth = <<(<<"Bearer", " ">> \o WrongKey)>>
    /\ lastResp.status = 401
    /\ sessions # <<>>
    /\ rows # {}

----------------------------------------------------------------------------
(* Claims about the client *)

Last(h) == h[Len(h)]

\* the client has returned from an operation and started no other
Returned(c) == cl[c].pc = "idle" /\ hist[c] # <<>>

\* C2: once upload_version(app, version, files) has returned Ok, for any
\* version string, download_version(app, platform, version) returns exactly
\* the bytes uploaded for each platform of the map, whatever their length
C2_UploadThenDownload ==
    \A c \in Clients :
        (/\ Returned(c)
         /\ Last(hist[c]).op = "upload"
         /\ Last(hist[c]).result.tag = "Ok")
        => \A p \in DOMAIN Last(hist[c]).files :
              ClientDownloadVersion(ServerState, Last(hist[c]).app, p,
                                    Last(hist[c]).version)
                = Ok(Last(hist[c]).files[p])

\* C8: upload_version called with a files map naming a platform outside the
\* supported set returns UnsupportedPlatform and has sent no HTTP request
C8_UnsupportedUploadSendsNothing ==
    \A c \in Clients : \A i \in DOMAIN hist[c] :
        (/\ hist[c][i].op = "upload"
         /\ ~(DOMAIN hist[c][i].files \subseteq SUPPORTED_PLATFORMS))
        => (/\ hist[c][i].result = Err("UnsupportedPlatform")
            /\ hist[c][i].sent = 0)

\* the operation the client returned from last was a successful delete of
\* the version its operation before uploaded with success
UploadedThenDeleted(c) ==
    /\ Returned(c)
    /\ Len(hist[c]) >= 2
    /\ LET up == hist[c][Len(hist[c]) - 1]
           dl == Last(hist[c])
       IN /\ up.op = "upload" /\ up.result.tag = "Ok"
          /\ dl.op = "delete" /\ dl.result.tag = "Ok"
          /\ dl.app = up.app /\ dl.version = up.version

----------------------------------------------------------------------------
(* Claims about the Auto-Updater *)

\* the flows that are checking, downloading or installing: those not yet
\* ended and not in the sleep that precedes the reset to Idle
BusyFlows == {i \in ActiveFlows : flows[i].pc # "hold"}

\* C3: at most one flow of check_and_install_updates_with_callback is
\* checking, downloading or installing at any time, under every interleaving
\* of clicks and timer ticks
C3_OneFlowAtATime == Cardinality(BusyFlows) <= 1

\* a click or a timer tick is handled
Triggered == triggers' # triggers

\* C4: a trigger that arrives while the status is Checking, Downloading or
\* Installing leaves the status as it is and starts no flow
C4_BusyTriggerIsNoOp ==
    [][(Triggered /\ status.kind \in {"Checking", "Downloading", "Installing"})
          => (status' = status /\ flows' = flows)]_vars

RECURSIVE Dedup(_)
\* a sequence of written values as the sequence of values the status took:
\* a value written again is no change
Dedup(w) ==
    IF Len(w) <= 1 THEN w
    ELSE IF w[1] = w[2] THEN Dedup(Tail(w))
    ELSE <<w[1]>> \o Dedup(Tail(w))

IsPrefix(a, b) == Len(a) <= Len(b) /\ a = SubSeq(b, 1, Len(a))

\* flow f has gone through want so far, and through all of it once done
Goes(f, want) ==
    /\ IsPrefix(Dedup(f.wrote), want)
    /\ f.pc = "done" => Dedup(f.wrote) = want

\* version a is greater than version b in semantic-version order
Greater(a, b) ==
    \/ a.major > b.major
    \/ a.major = b.major /\ a.minor > b.minor
    \/ a.major = b.major /\ a.minor = b.minor /\ a.patch > b.patch

\* one trigger from Idle and no other: one flow
SingleFlow == Len(flows) = 1 /\ triggers["click"] + triggers["timer"] = 1

\* the statement of C5 as worded: the status sequence and the counts depend
\* on the registry's latest version alone
C5_AsWorded ==
    SingleFlow =>
        LET reg == ClientGetLatestVersion(ServerState, APP_NAME,
                                          get_platform_string(os))
        IN (/\ reg.tag = "Ok"
            /\ reg.value # <<>>
            /\ SemverParse(reg.value[1].version) # <<>>)
           => IF ~Greater(SemverParse(reg.value[1].version)[1], current_version)
              THEN /\ Goes(flows[1], <<"Checking", "UpToDate", "Idle">>)
                   /\ downloads = 0
              ELSE /\ Goes(flows[1], <<"Checking", "Downloading", "Installing",
                                       "Updated">>)
                   /\ downloads <= 1 /\ installs <= 1
                   /\ flows[1].pc = "done" => (downloads = 1 /\ installs = 1)

\* C5: in a single flow started from Idle, once the lookup has returned a
\* version: if it is equal to or lower than the current version the status
\* goes Checking, UpToDate, Idle and no download request is made; if it is
\* greater, exactly one download request is made, and the status goes
\* Checking, Downloading, Installing, Updated with exactly one install
\* attempt when the download and the install succeed, Checking, Downloading,
\* Error, Idle with no install attempt when the download fails, and
\* Checking, Downloading, Installing, Error, Idle with one install attempt
\* when the install fails
C5_SingleFlow ==
    SingleFlow =>
        LET f == flows[1]
        IN (/\ f.found # <<>>
            /\ f.found[1].tag = "Ok"
            /\ f.found[1].value # <<>>
            /\ SemverParse(f.found[1].value[1].version) # <<>>)
           => IF ~Greater(SemverParse(f.found[1].value[1].version)[1],
                          current_version)
              THEN /\ Goes(f, <<"Checking", "UpToDate", "Idle">>)
                   /\ downloads = 0 /\ installs = 0
              ELSE /\ downloads = (IF f.dl = "none" THEN 0 ELSE 1)
                   /\ installs = (IF f.inst = "none" THEN 0 ELSE 1)
                   /\ f.pc = "done" => f.dl # "none"
                   /\ IF f.dl = "fail"
                      THEN /\ Goes(f, <<"Checking", "Downloading", "Error",
                                        "Idle">>)
                           /\ f.inst = "none"
                      ELSE IF f.inst = "fail"
                      THEN Goes(f, <<"Checking", "Downloading", "Installing",
                                     "Error", "Idle">>)
                      ELSE /\ Goes(f, <<"Checking", "Downloading", "Installing",
                                        "Updated">>)
                           /\ f.pc = "done" => (f.dl = "ok" /\ f.inst = "ok")

\* a single flow found 1.3.0, downloaded and installed it and has ended
C5_Witness ==
    /\ SingleFlow
    /\ flows[1].pc = "done"
    /\ flows[1].wrote = <<"Checking", "Downloading", "Installing", "Updated",
                          "Updated">>
    /\ status = St("Updated", SemverParse(V130))
    /\ downloads = 1
    /\ installs = 1

\* C6: whenever the status is Error it is later Idle, unless the process has
\* exited by then; and a trigger that finds the status Idle writes Checking
\* and starts a flow
C6_ErrorIsReset ==
    /\ (status.kind = "Error") ~> (status.kind = "Idle" \/ exited)
    /\ [][(Triggered /\ status.kind = "Idle")
            => (/\ status'.kind = "Checking"
                /\ Len(flows') = Len(flows) + 1
                /\ flows'[Len(flows')].pc = "lookup")]_vars

\* a flow failed, the status went Error and then Idle, and a later trigger
\* has started another flow
C6_Witness ==
    /\ Len(flows) >= 2
    /\ flows[1].pc = "done"
    /\ flows[1].wrote = <<"Checking", "Downloading", "Error", "Idle">>
    /\ flows[2].pc = "lookup"
    /\ status.kind = "Checking"

\* C9: get_latest_version and download_version with a platform outside the
\* supported set return UnsupportedPlatform and send no request; on a build
\* whose platform string is outside the set every flow goes Checking, Error,
\* Idle with no HTTP request, no download and no install attempt
C9_UnsupportedPlatformFailsFast ==
    /\ \A p \in PlatformNames \ SUPPORTED_PLATFORMS :
          /\ ClientGetLatestVersionCall(ServerState, APP_NAME, p)
               = [result |-> Err("UnsupportedPlatform"), sent |-> 0]
          /\ \A r \in rows :
                ClientDownloadVersionCall(ServerState, APP_NAME, p, r.version)
                  = [result |-> Err("UnsupportedPlatform"), sent |-> 0]
    /\ get_platform_string(os) \notin SUPPORTED_PLATFORMS
         => /\ netReqs = 0 /\ downloads = 0 /\ installs = 0
            /\ \A i \in DOMAIN flows :
                  Goes(flows[i], <<"Checking", "Error", "Idle">>)

\* on the linux build, against a registry that holds a release, a flow has
\* ended
C9_Witness ==
    /\ get_platform_string(os) = LinuxPlatform
    /\ rows # {}
    /\ flows # <<>>
    /\ flows[1].pc = "done"
    /\ flows[1].wrote = <<"Checking", "Error", "Idle">>

----------------------------------------------------------------------------
(* Claims about the lookups of the registry *)

\* the rows of app that carry platform
RowsFor(app, platform) ==
    {r \in rows : r.app_name = app /\ r.platform = platform}

\* C11: get_latest_version(app, platform) returns the version whose row for
\* the platform has the most recent timestamp among the rows of the app
\* that carry the platform
C11_LatestPerPlatform ==
    \A c \in Clients : \A i \in DOMAIN hist[c] :
        LET call == hist[c][i]
        IN (/\ call.op = "latest"
            /\ call.platform \in SUPPORTED_PLATFORMS
            /\ RowsFor(call.app, call.platform) # {})
           => /\ call.result.tag = "Ok"
              /\ call.result.value # <<>>
              /\ \E r \in RowsFor(call.app, call.platform) :
                    /\ \A o \in RowsFor(call.app, call.platform) :
                          o.timestamp <= r.timestamp
                    /\ call.result.value[1].version = r.version

\* C12: get_latest_version(app, platform) for a supported platform returns
\* Ok(None) when no row of the app carries the platform, whether the app
\* has no rows or rows for other platforms only
C12_AbsentIsNone ==
    \A c \in Clients : \A i \in DOMAIN hist[c] :
        LET call == hist[c][i]
        IN (/\ call.op = "latest"
            /\ call.platform \in SUPPORTED_PLATFORMS
            /\ RowsFor(call.app, call.platform) = {})
           => call.result = Ok(<<>>)

\* the lookup was made for a platform no row carries, in a registry that
\* holds rows of another platform
C12_Witness ==
    /\ Len(hist["c1"]) >= 1
    /\ hist["c1"][1].op = "latest"
    /\ hist["c1"][1].platform = "macos-arm"
    /\ hist["c1"][1].result = Ok(<<>>)
    /\ RowsFor("demo", "windows-x86_64-gnu") # {}

----------------------------------------------------------------------------
(* Claims about multipart sessions *)

SessionEndpoints == {"mpu-create", "mpu-uploadpart", "mpu-abort"}

\* the keys whose object appeared or changed in this step
Written == {k \in DOMAIN blobs' : k \notin DOMAIN blobs \/ blobs'[k] # blobs[k]}

\* C13: creating a multipart session, uploading parts to it and aborting it
\* leave the registry rows and the objects of the store as they were, and an
\* object is written at a key only by an accepted mpu-complete that ends an
\* open session of that key: a session aborted or never completed leaves no
\* row and no retrievable object
C13_OpenSessionLeavesNothing ==
    [][/\ (reqSeq' # reqSeq /\ lastReq'.endpoint \in SessionEndpoints)
            => (rows' = rows /\ blobs' = blobs)
       /\ \A k \in Written :
             /\ reqSeq' # reqSeq
             /\ lastReq'.endpoint = "mpu-complete"
             /\ lastResp'.status = 200
             /\ \E id \in DOMAIN sessions :
                   sessions[id].key = k /\ id \notin DOMAIN sessions']_vars

\* a session holds uploaded parts, was never completed, and a download was
\* just answered 404: nothing is registered or stored
C13_Witness ==
    /\ \E id \in DOMAIN sessions : sessions[id].parts # <<>>
    /\ lastReq.endpoint = "download"
    /\ lastResp.status = 404
    /\ rows = {}
    /\ blobs = <<>>

----------------------------------------------------------------------------
(* Claims about deletion *)

\* the delete handler has returned a failure
DeleteStopped(r) == del[r].pc = "done" /\ del[r].resp.status = 500

\* C14: wherever delete(app, version) stops on a failure, no row of the
\* version has been removed and every row that remains has its blob in the
\* store
C14_StoppedDeleteLeavesNoDanglingRow ==
    DeleteStopped("raw")
        => /\ \A r \in rows : RowKey(r) \in DOMAIN blobs
           /\ \E r \in rows : r.app_name = "demo" /\ r.version \in RawVersions

----------------------------------------------------------------------------
(* Claims about concurrent operations *)

TheTriple == RowsOf(rows, "demo", <<"1">>, "macos-arm")
TheKey == FileKey("demo", <<"1">>, "macos-arm")

\* client c gets the answer to its upload/finish in this step
Finishes(c) ==
    /\ cl[c].pc = "upload_finish"
    /\ cl'[c].pc = "upload_loop"

\* upload_version of c has returned Ok for a file of the triple
Uploaded(c) ==
    /\ Returned(c)
    /\ Last(hist[c]).op = "upload"
    /\ Last(hist[c]).result.tag = "Ok"
    /\ DOMAIN Last(hist[c]).files = {"macos-arm"}

C16_DeleteAndUploadLeaveNoDanglingRow ==
    (Returned("c1") /\ Returned("c2") /\ del["c2"].pc = "idle")
        => \A r \in rows : r.version = <<"1">> => RowKey(r) \in DOMAIN blobs

----------------------------------------------------------------------------
(* Claims about the order of the requests of upload_version *)

\* the key and the file of the platform c1 is uploading
UpKey == FileKey(cl["c1"].app, cl["c1"].version, cl["c1"].platform)
UpFile == cl["c1"].files[cl["c1"].platform]

\* the sessions whose parts changed in this step
PartsChanged ==
    {id \in DOMAIN sessions \cap DOMAIN sessions' :
        sessions'[id].parts # sessions[id].parts}

\* C17: for each platform upload_version sends mpu-create first, then
\* mpu-uploadpart for each chunk in ascending part number, then mpu-complete,
\* then upload/finish.  A session is opened only at the start of a platform;
\* a part is added only to the session opened, the next chunk under the
\* next number; the object is written only by the mpu-complete that follows
\* the last part, holds the file, and no row changes at that step, so a
\* first upload has no row until upload/finish; upload/finish is reached
\* only through an accepted mpu-complete, and the row it writes carries the
\* SHA-256 of the file's bytes
C17_UploadRequestOrder ==
    [][/\ nextId' # nextId
            => /\ cl["c1"].pc = "upload_loop"
               /\ cl'["c1"].pc \in {"upload_parts", "idle"}
               /\ rows' = rows /\ blobs' = blobs
       /\ \A id \in PartsChanged :
             /\ cl["c1"].pc = "upload_parts"
             /\ id = cl["c1"].uploadId
             /\ sessions[id].key = UpKey
             /\ sessions'[id].parts =
                   Append(sessions[id].parts,
                          [n |-> Len(sessions[id].parts) + 1,
                           data |-> SubSeq(UpFile,
                                       CHUNK_SIZE * Len(sessions[id].parts) + 1,
                                       IF CHUNK_SIZE * (Len(sessions[id].parts) + 1)
                                             < Len(UpFile)
                                       THEN CHUNK_SIZE * (Len(sessions[id].parts) + 1)
                                       ELSE Len(UpFile))])
             /\ rows' = rows /\ blobs' = blobs
       /\ Written # {}
            => /\ Written = {UpKey}
               /\ blobs'[UpKey] = UpFile
               /\ rows' = rows
               /\ cl'["c1"].pc = "upload_finish"
       /\ (cl'["c1"].pc = "upload_finish" /\ cl["c1"].pc # "upload_finish")
            => /\ cl["c1"].pc = "upload_parts"
               /\ cl["c1"].uploadId \in DOMAIN sessions
               /\ cl["c1"].uploadId \notin DOMAIN sessions'
               /\ UpKey \in DOMAIN blobs' /\ blobs'[UpKey] = UpFile
               /\ rows' = rows
       /\ rows' \ rows # {}
            => /\ cl["c1"].pc = "upload_finish"
               /\ UpKey \in DOMAIN blobs /\ blobs[UpKey] = UpFile
               /\ rows' \ rows =
                     {[app_name |-> cl["c1"].app, version |-> cl["c1"].version,
                       platform |-> cl["c1"].platform, timestamp |-> clock,
                       sha256 |-> <<"sha256", UpFile>>]}]_vars

\* a first upload between its two last requests: the two parts of the file
\* were uploaded, mpu-complete was accepted and the object is stored, and no
\* row exists for the triple before upload/finish
C17_Witness ==
    /\ cl["c1"].pc = "upload_finish"
    /\ Len(cl["c1"].parts) = 2
    /\ hist["c1"] = <<>>
    /\ blobs[UpKey] = UpFile
    /\ RowsOf(rows, cl["c1"].app, cl["c1"].version, cl["c1"].platform) = {}

----------------------------------------------------------------------------
(* Claims about the restart *)

\* C18: from status Updated the process exits only when the user invokes
\* restart (a click of the button), and no event other than that leaves
\* Updated: a timer tick does neither
C18_OnlyTheUserRestarts ==
    [][status.kind = "Updated"
         => /\ (exited' /\ ~exited) => triggers'["click"] # triggers["click"]
            /\ status'.kind = "Updated"]_vars

\* C19: restart_application, which update_button_clicked runs when the
\* status is Updated, terminates the process in every case, also when the
\* executable or the bundle is not found or the relaunch cannot be spawned
C19_RestartAlwaysExits ==
    [][(status.kind = "Updated" /\ triggers' # triggers) => exited']_vars

----------------------------------------------------------------------------
(* Claims about the redraw *)

\* C20: every write of the status by a flow (the trigger's write of Checking
\* and each callback's write) is followed by a redraw trigger before the
\* flow writes again: the values notified, then the one value whose redraw
\* is still to come, are the values written, in the order written; and
\* while the process runs the redraw of a written value does come: again and
\* again no written value is left without its redraw
C20_EveryWriteIsNotified ==
    /\ [](\A i \in DOMAIN flows :
             /\ flows[i].wrote = flows[i].notified \o flows[i].pending
             /\ Len(flows[i].pending) <= 1)
    /\ []<>(exited \/ \A i \in DOMAIN flows : flows[i].pending = <<>>)

\* a flow has installed an update and ended: its five writes were notified
\* one by one
C20_Witness ==
    /\ flows # <<>>
    /\ flows[1].pc = "done"
    /\ flows[1].pending = <<>>
    /\ flows[1].notified = <<"Checking", "Downloading", "Installing",
                             "Updated", "Updated">>

----------------------------------------------------------------------------
(* Claims about downloads *)

\* C21: a download of (app, platform, "latest") returns the blob of a
\* version that has a row for the platform whenever the app has a row for
\* the platform
C21_LatestDownloadResolves ==
    \A c \in Clients : \A i \in DOMAIN hist[c] :
       LET call == hist[c][i]
       IN (/\ call.op = "download"
           /\ call.version = LatestWord
           /\ call.platform \in SUPPORTED_PLATFORMS
           /\ RowsFor(call.app, call.platform) # {})
          => /\ call.result.tag = "Ok"
             /\ \E r \in RowsFor(call.app, call.platform) :
                   /\ RowKey(r) \in DOMAIN blobs
                   /\ call.result.value = blobs[RowKey(r)]

\* a download of client c returns in this step
Downloads(c) ==
    /\ Len(hist'[c]) = Len(hist[c]) + 1
    /\ Last(hist'[c]).op = "download"

\* C22: download(app, platform, version) for a supported platform returns
\* VersionNotFound (404) when the registry has no row for exactly (app,
\* version, platform) or the row's blob is absent, and else the blob at the
\* row's key: no blob is served without such a row
C22_DownloadNeedsRowAndBlob ==
    [][\A c \in Clients :
         (Downloads(c) /\ Last(hist'[c]).platform \in SUPPORTED_PLATFORMS)
           => LET call == Last(hist'[c])
                  key == FileKey(call.app, call.version, call.platform)
              IN IF \/ RowsOf(rows, call.app, call.version, call.platform) = {}
                    \/ key \notin DOMAIN blobs
                 THEN call.result = Err("VersionNotFound")
                 ELSE call.result = Ok(blobs[key])]_vars

----------------------------------------------------------------------------
(* Claims about the requests of the client's operations *)

\* the requests upload_version sends for the file of platform p
PlatformReqs(p, file) ==
    <<Req("mpu-create", p, 0)>>
       \o [i \in 1..((Len(file) + CHUNK_SIZE - 1) \div CHUNK_SIZE) |->
              Req("mpu-uploadpart", p, i)]
       \o <<Req("mpu-complete", p, 0), Req("upload/finish", p, 0)>>

\* reqs sends no request twice: for an upload, the requests of each platform
\* are the first ones of PlatformReqs, each once; any other operation sends
\* one request at most
SentOnce(op, files, reqs) ==
    IF op = "upload"
    THEN \A p \in DOMAIN files :
            IsPrefix(SelectSeq(reqs, LAMBDA r : r.platform = p),
                     PlatformReqs(p, files[p]))
    ELSE Len(reqs) <= 1

\* an operation of c returns an error in this step
ReturnsErr(c) ==
    /\ Len(hist'[c]) = Len(hist[c]) + 1
    /\ Last(hist'[c]).result.tag = "Err"

C24_NeverPanics ==
    \A c \in Clients : \A i \in DOMAIN hist[c] :
       hist[c][i].result.tag \in {"Ok", "Err"}


\* C25: in every state reached by runs of upload_version, two concurrent
\* runs for the same (app, version, platform) with different bytes
\* included, the sha256 of every registry row is the SHA-256 digest of the
\* bytes of the object now stored at the row's key
C25_RowHashIsDigestOfBlob ==
    \A r \in rows :
       /\ RowKey(r) \in DOMAIN blobs
       /\ r.sha256 = Sha256(blobs[RowKey(r)])


\* upload_version created a session for platform p (a request after
\* mpu-create was sent for p) and sent no upload/finish for p: it stopped
\* before a successful mpu-complete
StoppedAfterCreate(reqs, p) ==
    /\ \E k \in DOMAIN reqs :
          /\ reqs[k].platform = p
          /\ reqs[k].name \in {"mpu-uploadpart", "mpu-complete"}
    /\ \A k \in DOMAIN reqs : reqs[k] # Req("upload/finish", p, 0)

\* C26: when upload_version has created a multipart session for a platform
\* and a part upload or the complete call fails, it sends mpu-abort for that
\* session before it returns the error
C26_FailedUploadAborts ==
    \A c \in Clients : \A i \in DOMAIN hist[c] :
       (hist[c][i].op = "upload" /\ hist[c][i].result.tag = "Err")
          => \A p \in DOMAIN hist[c][i].files :
                StoppedAfterCreate(hist[c][i].reqs, p)
                   => \E k \in DOMAIN hist[c][i].reqs :
                         hist[c][i].reqs[k] = Req("mpu-abort", p, 0)


\* C27: every request to the Coordinator that misses a parameter, carries a
\* parameter or a body that is not valid, or names an unsupported platform
\* is answered with status 400 and an {error} body, on every endpoint
C27_BadRequestIs400 ==
    lastReq.endpoint # "none" => lastResp = [status |-> 400, kind |-> "error"]


\* C28: after any sequence of authenticated requests to the Coordinator,
\* the platform of every registry row is one of the supported platforms, and
\* the key of every multipart session is built from a supported platform
C28_OnlySupportedPlatformsStored ==
    /\ \A r \in rows : r.platform \in SUPPORTED_PLATFORMS
    /\ \A id \in DOMAIN sessions :
          \E app \in Apps, v \in RawVersions, p \in SUPPORTED_PLATFORMS :
             sessions[id].key = FileKey(app, v, p)


\* C29: upload/finish is an upsert keyed by (app, version, platform): a call
\* leaves exactly one row for its key, whether or not one was there, with
\* the sha256 of the call and the server's time at the call, and leaves the
\* rows of every other key as they were
C29_FinishIsUpsert ==
    [][\A c \in Clients :
          Finishes(c)
            => LET op == cl[c]
                   same(r) == /\ r.app_name = op.app
                              /\ r.version = op.version
                              /\ r.platform = op.platform
               IN /\ {r \in rows' : same(r)} =
                        {[app_name |-> op.app, version |-> op.version,
                          platform |-> op.platform, timestamp |-> clock,
                          sha256 |-> Sha256(op.files[op.platform])]}
                  /\ {r \in rows' : ~same(r)} = {r \in rows : ~same(r)}]_vars

\* two uploads of one version returned Ok: the first with files for two
\* platforms, the second with other bytes for macos-arm; the row of
\* macos-arm is that of the second call, the row of the other platform is
\* still that of the first
C29_Witness ==
    /\ Len(hist["c1"]) = 2
    /\ \A i \in 1..2 : hist["c1"][i].op = "upload" /\ hist["c1"][i].result.tag = "Ok"
    /\ hist["c1"][1].version = hist["c1"][2].version
    /\ DOMAIN hist["c1"][1].files = {"macos-arm", "windows-x86_64-gnu"}
    /\ DOMAIN hist["c1"][2].files = {"macos-arm"}
    /\ hist["c1"][1].files["macos-arm"] # hist["c1"][2].files["macos-arm"]
    /\ \A r \in RowsOf(rows, "demo", hist["c1"][1].version, "macos-arm") :
          /\ r.sha256 = Sha256(hist["c1"][2].files["macos-arm"])
          /\ r.timestamp = 3
    /\ \E r \in RowsOf(rows, "demo", hist["c1"][1].version, "windows-x86_64-gnu") :
          /\ r.sha256 = Sha256(hist["c1"][1].files["windows-x86_64-gnu"])
          /\ r.timestamp < 3
    /\ Cardinality(rows) = 2


\* C30: list_versions(app) returns exactly one entry for each version the
\* app has a row of; the platforms of an entry are the platforms of the
\* app's rows of that version, each once, and sha256s has the hash of each of
\* these rows; nothing of another version or another app is in it
C30_ListGroupsRowsByVersion ==
    \A c \in Clients : \A i \in DOMAIN hist[c] :
       hist[c][i].op = "list"
          => /\ hist[c][i].result.tag = "Ok"
             /\ LET app == hist[c][i].app
                    vs == hist[c][i].result.value
                IN /\ {vs[k].version : k \in DOMAIN vs} =
                         {r.version : r \in {x \in rows : x.app_name = app}}
                   /\ \A k, l \in DOMAIN vs :
                         vs[k].version = vs[l].version => k = l
                   /\ \A k \in DOMAIN vs :
                         LET ps == PlatformsOf(rows, app, vs[k].version)
                         IN /\ Range(vs[k].platforms) = ps
                            /\ Len(vs[k].platforms) = Cardinality(ps)
                            /\ DOMAIN vs[k].sha256s = ps
                            /\ \A p \in ps :
                                  \A r \in RowsOf(rows, app, vs[k].version, p) :
                                     vs[k].sha256s[p] = r.sha256

\* "demo" has version 1 for two platforms, "other" has a row of version 1
\* too, and the versions of "demo" were listed: one entry, with the two
\* platforms
C30_Witness ==
    /\ PlatformsOf(rows, "demo", <<"1">>) = {"macos-arm", "windows-x86_64-gnu"}
    /\ PlatformsOf(rows, "other", <<"1">>) # {}
    /\ Len(hist["c1"]) >= 1
    /\ hist["c1"][1].op = "list"
    /\ hist["c1"][1].app = "demo"
    /\ hist["c1"][1].result.tag = "Ok"
    /\ Len(hist["c1"][1].result.value) = 1
    /\ Len(hist["c1"][1].result.value[1].platforms) = 2


----------------------------------------------------------------------------
(* Claims about the parts of an upload *)

\* client c sends mpu-complete in this step
SendsComplete(c) ==
    /\ cl[c].pc = "upload_parts"
    /\ cl[c].idx > Len(Chunks(cl[c].files[cl[c].platform]))
    /\ cl'[c] # cl[c]

\* C31: for each file upload_version uploads the parts 1, 2, ..., N in
\* increasing order without a gap, N being 1 at least whatever the length
\* of the file (the empty file and the multiples of the chunk size
\* included), and passes to mpu-complete the N {partNumber, etag} pairs it
\* was answered, in that order
C31_PartsOneToN ==
    [][\A c \in Clients :
          SendsComplete(c)
            => LET p == cl[c].platform
                   sent == SelectSeq(cl[c].reqs,
                               LAMBDA r : r.platform = p
                                          /\ r.name = "mpu-uploadpart")
                   N == Len(sent)
               IN /\ N >= 1
                  /\ sent = [i \in 1..N |-> Req("mpu-uploadpart", p, i)]
                  /\ cl[c].parts =
                        [i \in 1..N |->
                            [partNumber |-> i,
                             etag |-> Etag(Chunks(cl[c].files[p])[i])]]]_vars


----------------------------------------------------------------------------
(* Claims about the outcomes of a check flow *)

\* the lookup of flow f failed, found no release for the platform, or found
\* a version string that is not a semantic version
LookupFailed(f) ==
    /\ f.found # <<>>
    /\ \/ f.found[1].tag = "Err"
       \/ f.found[1].value = <<>>
       \/ SemverParse(f.found[1].value[1].version) = <<>>

\* C32: a flow whose registry lookup fails, returns no release for the
\* platform, or returns a version string that is not a semantic version
\* writes Error, then Idle after the delay and nothing else, and makes no
\* download request and no install attempt
C32_FailedLookupIsErrorThenIdle ==
    /\ \A i \in DOMAIN flows :
          LookupFailed(flows[i])
             => /\ flows[i].pc \in {"hold", "done"}
                /\ flows[i].pc = "hold"
                     => flows[i].wrote = <<"Checking", "Error">>
                /\ flows[i].pc = "done"
                     => flows[i].wrote = <<"Checking", "Error", "Idle">>
                /\ flows[i].dl = "none"
                /\ flows[i].inst = "none"
    /\ (\A i \in DOMAIN flows :
           flows[i].found # <<>> => LookupFailed(flows[i]))
          => downloads = 0 /\ installs = 0

\* the registry's release for the platform has the version "1.3", which is
\* not a semantic version: the flow has written Error and then Idle
C32_Witness ==
    /\ Len(flows) = 1
    /\ flows[1].pc = "done"
    /\ flows[1].found # <<>>
    /\ flows[1].found[1].tag = "Ok"
    /\ flows[1].found[1].value # <<>>
    /\ flows[1].found[1].value[1].version = VNoPatch
    /\ flows[1].wrote = <<"Checking", "Error", "Idle">>
    /\ status = St("Idle", <<>>)
    /\ downloads = 0


----------------------------------------------------------------------------
(* Claims about the install *)

\* C33: on a Windows install the running executable is copied to its
\* .backup sibling before the target is overwritten: when the install fails
\* at any step (extraction, backup copy, copy of the new executable) the
\* target executable still holds the original bytes, and after a successful
\* install the backup holds the previous executable
C33_FailedInstallKeepsOriginal ==
    /\ disk.result = "Err"
         => TargetExe \in DOMAIN disk.fs /\ disk.fs[TargetExe] = OldBytes
    /\ disk.result = "Ok"
         => BackupExe \in DOMAIN disk.fs /\ disk.fs[BackupExe] = OldBytes


----------------------------------------------------------------------------
(* Claims about the order of the listing *)

\* the entries are in descending order of timestamp, and the timestamp of
\* an entry is the greatest timestamp of the rows of app of its version
ListedByLatestRow(app, vs) ==
    /\ \A k, l \in DOMAIN vs : k < l => vs[k].timestamp >= vs[l].timestamp
    /\ \A k \in DOMAIN vs :
          LET rs == {r \in rows : r.app_name = app /\ r.version = vs[k].version}
          IN /\ \E r \in rs : vs[k].timestamp = r.timestamp
             /\ \A r \in rs : vs[k].timestamp >= r.timestamp

\* operation i of c is a list_versions called directly after an
\* upload_version of the same app that returned Ok
ListedAfterUpload(c, i) ==
    /\ i > 1
    /\ hist[c][i].op = "list"
    /\ hist[c][i - 1].op = "upload"
    /\ hist[c][i - 1].result.tag = "Ok"
    /\ hist[c][i - 1].app = hist[c][i].app

\* C34 as stated: list_versions returns its entries in descending order of
\* timestamp, the timestamp of an entry being the greatest among the rows of
\* its version; directly after a successful upload_version of version V, V
\* is the first entry
C34_UploadedVersionIsFirst ==
    \A c \in Clients : \A i \in DOMAIN hist[c] :
       hist[c][i].op = "list"
          => /\ hist[c][i].result.tag = "Ok"
             /\ ListedByLatestRow(hist[c][i].app, hist[c][i].result.value)
             /\ ListedAfterUpload(c, i)
                  => /\ hist[c][i].result.value # <<>>
                     /\ hist[c][i].result.value[1].version =
                           hist[c][i - 1].version

\* C34, amended: the same, V being the first entry directly after a
\* successful upload_version of V with one file at least
C34_UploadedFilesVersionIsFirst ==
    \A c \in Clients : \A i \in DOMAIN hist[c] :
       hist[c][i].op = "list"
          => /\ hist[c][i].result.tag = "Ok"
             /\ ListedByLatestRow(hist[c][i].app, hist[c][i].result.value)
             /\ (ListedAfterUpload(c, i) /\ hist[c][i - 1].files # <<>>)
                  => /\ hist[c][i].result.value # <<>>
                     /\ hist[c][i].result.value[1].version =
                           hist[c][i - 1].version

\* the registry held version 1 for one platform and, newer, version 2;
\* version 1 was uploaded for the other platform and the versions listed:
\* version 1 comes first, with the time of its new row
C34_Witness ==
    /\ Len(hist["c1"]) = 2
    /\ hist["c1"][1].op = "upload"
    /\ hist["c1"][1].result.tag = "Ok"
    /\ hist["c1"][1].version = <<"1">>
    /\ DOMAIN hist["c1"][1].files = {"macos-arm"}
    /\ hist["c1"][2].op = "list"
    /\ hist["c1"][2].app = "demo"
    /\ hist["c1"][2].result.tag = "Ok"
    /\ Len(hist["c1"][2].result.value) = 2
    /\ hist["c1"][2].result.value[1].version = <<"1">>
    /\ Len(hist["c1"][2].result.value[1].platforms) = 2
    /\ \E r \in rows : /\ r.version = <<"2">>
                       /\ \E q \in rows : q.version = <<"1">>
                                          /\ q.timestamp < r.timestamp


----------------------------------------------------------------------------
(* Claims about the errors of the client *)

\* C35: download_version, list_versions, get_latest_version and
\* delete_version each return VersionNotFound for a 404 response,
\* Authentication for a 401 response, and Api for every other status that is
\* not a success
C35_StatusToError ==
    hist["c1"] # <<>>
       => LET result == Last(hist["c1"]).result
          IN /\ lastResp.status = 404 => result = Err("VersionNotFound")
             /\ lastResp.status = 401 => result = Err("Authentication")
             /\ lastResp.status \in {400, 500} => result = Err("Api")


----------------------------------------------------------------------------
(* Claims about the status under several flows *)

\* the hold of flow i ends in this step: its callback of Idle runs
HoldEnds(i) ==
    /\ i \in DOMAIN flows
    /\ flows[i].pc = "hold"
    /\ flows'[i].pc = "done"

\* C36: the reset to Idle that a flow performs after the hold that follows
\* its write of UpToDate or Error changes the status only when the status is
\* still the value that flow wrote: it never overwrites the Checking,
\* Downloading, Installing or Updated of a check triggered during the hold
C36_ResetOnlyOwnStatus ==
    [][\A i \in 1..MaxFlows :
          (HoldEnds(i) /\ status' # status)
             => status.kind = Last(flows[i].wrote)]_vars


\* C37: once the status is Updated it stays Updated in every later state
\* until the process exits, whatever triggers arrive and whatever any other
\* flow still running writes
C37_UpdatedIsStable ==
    [][(status.kind = "Updated" /\ ~exited) => status'.kind = "Updated"]_vars


----------------------------------------------------------------------------
(* Claims about uploads of several platforms *)

\* the requests of reqs for platform p
ReqsOf(reqs, p) == SelectSeq(reqs, LAMBDA r : r.platform = p)

\* reqs goes through the platforms one after another: the request that
\* follows a request of one platform is of the same platform, unless the one
\* is its upload/finish and the other the mpu-create of a platform that has
\* no request yet
OnePlatformAtATime(reqs) ==
    \A k \in 1..(Len(reqs) - 1) :
       reqs[k].platform # reqs[k + 1].platform
          => /\ reqs[k].name = "upload/finish"
             /\ reqs[k + 1].name = "mpu-create"
             /\ \A j \in 1..k : reqs[j].platform # reqs[k + 1].platform

\* C38: upload_version goes through the platforms of its files one after
\* another, one platform's create, parts, complete and finish before the
\* next platform's; when it returns an error while it is at one platform,
\* the rows it committed for the platforms before stay in the registry and
\* no request was sent for the platforms that remain
C38_PlatformsInTurn ==
    /\ [](\A c \in Clients :
             /\ OnePlatformAtATime(cl[c].reqs)
             /\ \A i \in DOMAIN hist[c] : OnePlatformAtATime(hist[c][i].reqs))
    /\ [][\A c \in Clients :
            (ReturnsErr(c) /\ cl[c].op = "upload" /\ Last(hist'[c]).reqs # <<>>)
              => LET h == Last(hist'[c])
                     failed == Last(h.reqs).platform
                 IN /\ rows' = rows
                    /\ \A p \in DOMAIN h.files \ {failed} :
                          \/ ReqsOf(h.reqs, p) = <<>>
                          \/ /\ ReqsOf(h.reqs, p) = PlatformReqs(p, h.files[p])
                             /\ \E r \in RowsOf(rows', h.app, h.version, p) :
                                   r.sha256 = Sha256(h.files[p])
                    /\ \A p \in cl[c].todo \ {failed} :
                          ReqsOf(h.reqs, p) = <<>>]_vars

\* an upload of files for two platforms returned an error at the second
\* platform: the first platform's requests are all there and its row is in
\* the registry
C38_Witness ==
    /\ Len(hist["c1"]) = 1
    /\ hist["c1"][1].op = "upload"
    /\ hist["c1"][1].result.tag = "Err"
    /\ Cardinality(DOMAIN hist["c1"][1].files) = 2
    /\ \E p \in DOMAIN hist["c1"][1].files :
          /\ Last(hist["c1"][1].reqs).platform # p
          /\ ReqsOf(hist["c1"][1].reqs, p) =
                PlatformReqs(p, hist["c1"][1].files[p])
          /\ RowsOf(rows, "demo", hist["c1"][1].version, p) # {}
          /\ Len(hist["c1"][1].reqs) > Len(ReqsOf(hist["c1"][1].reqs, p)) + 1


----------------------------------------------------------------------------
(* Claims about extract_zip *)

\* the paths whose file a step creates, changes or removes
PathsTouched ==
    {p \in DOMAIN disk.fs \cup DOMAIN disk'.fs :
        \/ p \notin DOMAIN disk.fs
        \/ p \notin DOMAIN disk'.fs
        \/ disk.fs[p] # disk'.fs[p]}

\* C39: extract_zip writes every entry of the archive to a path inside the
\* extraction directory, whatever name the entry carries, names with '..'
\* components and absolute names included
C39_ExtractStaysInside ==
    [][disk.pc = "extract"
          => \A p \in PathsTouched : IsPrefix(ExtractDir, p)]_vars

====
